---- MODULE Spec2Model ----
(***************************************************************************)
(* A model of the athenadriver Connection (go/connection.go): one          *)
(* QueryContext / ExecContext invocation at a time against the remote      *)
(* Athena service, with the caller's context, the wall clock and the       *)
(* remote execution as the environment.                                    *)
(*                                                                         *)
(* Query texts are sequences of tokens; a token stands for the run of      *)
(* characters it spells ("pc:", "get_query_id", " ", "?", ...), so that    *)
(* strings.HasPrefix, strings.Trim and strings.Count are computed on the   *)
(* text and not assumed.                                                   *)
(***************************************************************************)
EXTENDS Integers, Sequences, FiniteSets, TLC

(***************************************************************************)
(* Bounds of the model.                                                    *)
(***************************************************************************)
\* the wall clock runs from 0 to MaxTime
MaxTime == 2

(***************************************************************************)
(* Text helpers (package strings).                                         *)
(***************************************************************************)
HasPrefix(s, p) == Len(s) >= Len(p) /\ SubSeq(s, 1, Len(p)) = p

Drop(s, n) == SubSeq(s, n + 1, Len(s))

RECURSIVE TrimLeft(_)
TrimLeft(s) == IF s # <<>> /\ Head(s) = " " THEN TrimLeft(Tail(s)) ELSE s

RECURSIVE TrimRight(_)
TrimRight(s) ==
    IF s # <<>> /\ s[Len(s)] = " " THEN TrimRight(SubSeq(s, 1, Len(s) - 1)) ELSE s

\* strings.Trim(s, " ")
Trim(s) == TrimRight(TrimLeft(s))

RECURSIVE Count(_, _)
Count(s, t) ==
    IF s = <<>> THEN 0 ELSE (IF Head(s) = t THEN 1 ELSE 0) + Count(Tail(s), t)

\* strings.IndexByte(s, '?'), 0-based, -1 when absent
RECURSIVE IndexByte(_, _)
IndexByte(s, t) ==
    IF s = <<>> THEN -1
    ELSE IF Head(s) = t THEN 0
    ELSE LET r == IndexByte(Tail(s), t) IN IF r = -1 THEN -1 ELSE r + 1

(***************************************************************************)
(* Errors: an error value has an identity and a text.                      *)
(***************************************************************************)
Err(id, text) == [id |-> id, text |-> text]

Nil == Err("nil", "")

ErrInvalidQuery == Err("ErrInvalidQuery", "query is not valid")

ErrQueryUnknownType == Err("ErrQueryUnknownType", "query parameter type is not supported")

ErrQueryBufferOF == Err("ErrQueryBufferOF", "query buffer overflow")

ErrQueryTimeout == Err("ErrQueryTimeout", "query timeout")

ErrWriteViolation ==
    Err("fmt.Errorf", "writing to Athena database is disallowed in read-only mode")

ErrPseudoCommand == Err("fmt.Errorf", "pseudo command doesn't exist")

ErrWGUnavailable ==
    Err("fmt.Errorf", "workgroup doesn't exist and workgroup remote creation is disabled")

ErrWGDisabled == Err("fmt.Errorf", "workgroup is disabled")

ContextCanceled == Err("context.Canceled", "context canceled")

ContextDeadlineExceeded == Err("context.DeadlineExceeded", "context deadline exceeded")

\* a remote failure that carries no HTTP response (fmt.Errorf, ErrTestMockGeneric)
ErrRemote == Err("ErrTestMockGeneric", "remote call failed")

\* an *awshttp.ResponseError: it carries the service-assigned request id
ErrResponse == Err("awshttp.ResponseError", "https response error")

\* the RequestID of the response error (part_001:192)
ServiceRequestID == "unk"

\* database/sql/driver.ErrBadConn
ErrBadConn == Err("driver.ErrBadConn", "driver: bad connection")

ErrAthenaTransactionUnsupported ==
    Err("ErrAthenaTransactionUnsupported", "Athena doesn't support transaction statements")

(***************************************************************************)
(* Tokens and their byte lengths (len(query) counts bytes).                *)
(***************************************************************************)
\* an execution identifier, e.g. c89088ab-595d-4ee6-a9ce-73b55aeb8900
QIDTok == "c89088ab-595d-4ee6-a9ce-73b55aeb8900"

TokLen(t) ==
    CASE t = "pc:" -> 3
      [] t = "get_query_id" -> 12
      [] t = "_status" -> 7
      [] t = "stop_query_id" -> 13
      [] t = "get_driver_version" -> 18
      [] t = "bogus" -> 5
      [] t = "SELECT" -> 6
      [] t = "CREATE" -> 6
      [] t = "NULL" -> 4
      [] t = QIDTok -> 36
      [] t = "BIG" -> 10 * 262144
      [] OTHER -> 1

RECURSIVE ByteLen(_)
ByteLen(s) == IF s = <<>> THEN 0 ELSE TokLen(Head(s)) + ByteLen(Tail(s))

(***************************************************************************)
(* Constants of the package that the connection uses.                      *)
(***************************************************************************)
PCGetQID == <<"get_query_id">>

PCGetQIDStatus == <<"get_query_id", "_status">>

PCStopQID == <<"stop_query_id">>

PCGetDriverVersion == <<"get_driver_version">>

\* pseudoCommand = "" (no pseudo command)
NoPC == <<>>

DriverVersion == "DRIVER_VERSION"

DefaultWGName == "primary"

MAXQueryStringLength == 262144

\* keyword-prefix classification of the statement for the read-only mode
ReadOnlyKeywords == {"SELECT"}

isReadOnlyStatement(query) == query # <<>> /\ Head(query) \in ReadOnlyKeywords

\* the query is one execution identifier and nothing else
IsQID(query) == query = <<QIDTok>>

isQueryValid(query) == ByteLen(query) > 0 /\ ByteLen(query) <= MAXQueryStringLength

(***************************************************************************)
(* Arguments (driver.Value) and their literals.                            *)
(***************************************************************************)
ArgNil == [type |-> "nil"]

ArgInt == [type |-> "int64", i |-> 7]

ArgBool == [type |-> "bool", b |-> TRUE]

ArgStr == [type |-> "string", s |-> <<"a">>]

\* a value of a type the driver does not support
ArgUnknown == [type |-> "struct"]

\* strconv.FormatInt(v, 10): the decimal text of v
FormatInt(v) == <<ToString(v)>>

\* escapeStringBackslash: a backslash before \ and '
RECURSIVE escapeStringBackslash(_)
escapeStringBackslash(v) ==
    IF v = <<>> THEN <<>>
    ELSE (IF Head(v) \in {"\\", "'"} THEN <<"\\", Head(v)>> ELSE <<Head(v)>>)
             \o escapeStringBackslash(Tail(v))

\* the text interpolateParams writes for one non-nil argument, or the error
interpolateLiteral(arg) ==
    CASE arg.type = "int64" -> [s |-> FormatInt(arg.i), err |-> Nil]
      [] arg.type = "bool" -> [s |-> IF arg.b THEN <<"1">> ELSE <<"0">>, err |-> Nil]
      [] arg.type = "string" ->
            [s |-> <<"'">> \o escapeStringBackslash(arg.s) \o <<"'">>, err |-> Nil]
      [] OTHER -> [s |-> <<>>, err |-> ErrQueryUnknownType]

\* mutant: every placeholder takes the first argument
RECURSIVE interpolateLoop_FirstArg(_, _, _, _, _)
interpolateLoop_FirstArg(query, i, args, argPos, queryBuffer) ==
    IF i >= Len(query) THEN [s |-> queryBuffer, err |-> Nil]
    ELSE
      LET q == IndexByte(Drop(query, i), "?") IN
      IF q = -1 THEN [s |-> queryBuffer \o Drop(query, i), err |-> Nil]
      ELSE
        LET buf1 == queryBuffer \o SubSeq(query, i + 1, i + q)
            arg  == args[1]
        IN
        IF arg.type = "nil"
        THEN interpolateLoop_FirstArg(query, i + q + 1, args, argPos + 1, buf1 \o <<"NULL">>)
        ELSE
          LET lit == interpolateLiteral(arg) IN
          IF lit.err # Nil THEN [s |-> <<>>, err |-> lit.err]
          ELSE IF ByteLen(buf1 \o lit.s) + 4 > 10 * MAXQueryStringLength
          THEN [s |-> <<>>, err |-> ErrQueryBufferOF]
          ELSE interpolateLoop_FirstArg(query, i + q + 1, args, argPos + 1, buf1 \o lit.s)

\* the loop of interpolateParams from byte index i (0-based) on
RECURSIVE interpolateLoop(_, _, _, _, _)
interpolateLoop(query, i, args, argPos, queryBuffer) ==
    IF i >= Len(query) THEN [s |-> queryBuffer, err |-> Nil]
    ELSE
      LET q == IndexByte(Drop(query, i), "?") IN
      IF q = -1 THEN [s |-> queryBuffer \o Drop(query, i), err |-> Nil]
      ELSE
        LET buf1 == queryBuffer \o SubSeq(query, i + 1, i + q)
            arg  == args[argPos + 1]
        IN
        IF arg.type = "nil"
        THEN interpolateLoop(query, i + q + 1, args, argPos + 1, buf1 \o <<"NULL">>)
        ELSE
          LET lit == interpolateLiteral(arg) IN
          IF lit.err # Nil THEN [s |-> <<>>, err |-> lit.err]
          ELSE IF ByteLen(buf1 \o lit.s) + 4 > 10 * MAXQueryStringLength
          THEN [s |-> <<>>, err |-> ErrQueryBufferOF]
          ELSE interpolateLoop(query, i + q + 1, args, argPos + 1, buf1 \o lit.s)

interpolateParams(query, args) ==
    IF Count(query, "?") # Len(args) THEN [s |-> <<>>, err |-> ErrInvalidQuery]
    ELSE interpolateLoop(query, 0, args, 0, <<>>)

\* the execution parameter buildExecutionParams makes of one non-nil argument
executionParam(arg) ==
    CASE arg.type = "int64" -> [s |-> FormatInt(arg.i), err |-> Nil]
      [] arg.type = "bool" -> [s |-> IF arg.b THEN <<"1">> ELSE <<"0">>, err |-> Nil]
      [] arg.type = "string" -> [s |-> arg.s, err |-> Nil]
      [] OTHER -> [s |-> <<>>, err |-> ErrQueryUnknownType]

RECURSIVE buildExecutionLoop(_, _)
buildExecutionLoop(args, executionParams) ==
    IF args = <<>> THEN [params |-> executionParams, err |-> Nil]
    ELSE IF Head(args).type = "nil"
    THEN buildExecutionLoop(Tail(args), Append(executionParams, <<"NULL">>))
    ELSE LET p == executionParam(Head(args)) IN
         IF p.err # Nil THEN [params |-> <<>>, err |-> p.err]
         ELSE buildExecutionLoop(Tail(args), Append(executionParams, p.s))

buildExecutionParams(args) ==
    IF Len(args) = 0 THEN [params |-> <<>>, err |-> Nil]
    ELSE buildExecutionLoop(args, <<>>)

(***************************************************************************)
(* The pseudo-command prefix of QueryContext.                              *)
(***************************************************************************)
\* outcome "go": continue with query and pseudoCommand; "version": return the
\* driver version; "unknown": the pseudo command does not exist
ParsePseudoCommand(query0) ==
    IF ~HasPrefix(query0, <<"pc:">>)
    THEN [outcome |-> "go", pseudoCommand |-> NoPC, query |-> query0]
    ELSE
      LET query == Trim(Drop(query0, 1)) IN
      IF HasPrefix(query, PCGetQID \o <<" ">>)
      THEN [outcome |-> "go", pseudoCommand |-> PCGetQID,
            query |-> Trim(Drop(query, Len(PCGetQID)))]
      ELSE IF HasPrefix(query, PCGetQIDStatus \o <<" ">>)
      THEN [outcome |-> "go", pseudoCommand |-> PCGetQIDStatus,
            query |-> Trim(Drop(query, Len(PCGetQIDStatus)))]
      ELSE IF HasPrefix(query, PCStopQID \o <<" ">>)
      THEN [outcome |-> "go", pseudoCommand |-> PCStopQID,
            query |-> Trim(Drop(query, Len(PCStopQID)))]
      ELSE IF HasPrefix(query, PCGetDriverVersion)
      THEN [outcome |-> "version", pseudoCommand |-> PCGetDriverVersion, query |-> query]
      ELSE [outcome |-> "unknown", pseudoCommand |-> PCGetDriverVersion, query |-> query]

(***************************************************************************)
(* Results.                                                                *)
(***************************************************************************)
NoRows == [kind |-> "none"]

NoResult == [kind |-> "none"]

NoUpdateCount == [present |-> FALSE, n |-> 0]

\* getHeaderlessSingleRowResultPage: one row, one column "_col0", no remote call
getHeaderlessSingleRowResultPage(value) ==
    [kind |-> "single", columns |-> <<"_col0">>, data |-> << <<value>> >>,
     updateCount |-> NoUpdateCount]

\* NewRows: a cursor on the result pages of queryID, holding the first page
NewRows(queryID, updateCount) ==
    [kind |-> "cursor", queryID |-> queryID, updateCount |-> updateCount]

\* mutant: Ping returns the error of its query as it is
Pinged_Verbatim(err) == err

\* what Ping makes of the error of its QueryContext call (connection.go:535-540)
Pinged(err) == IF err # Nil THEN ErrBadConn ELSE Nil

\* mutant: ExecContext reports no affected row whatever the update count
Return_NoCount(api, rows, err) ==
    IF api = "QueryContext" THEN [rows |-> rows, result |-> NoResult, err |-> err]
    ELSE IF api = "Ping" THEN [rows |-> NoRows, result |-> NoResult, err |-> Pinged(err)]
    ELSE IF err # Nil THEN [rows |-> NoRows, result |-> NoResult, err |-> err]
    ELSE [rows |-> NoRows,
          result |-> [kind |-> "AthenaResult", lastInsertedID |-> -1, rowAffected |-> 0],
          err |-> Nil]

\* what the invocation returns to its caller: QueryContext returns (rows, err);
\* Ping closes the rows and returns the error only;
\* ExecContext turns the rows of its QueryContext call into an AthenaResult
Return(api, rows, err) ==
    IF api = "QueryContext" THEN [rows |-> rows, result |-> NoResult, err |-> err]
    ELSE IF api = "Ping" THEN [rows |-> NoRows, result |-> NoResult, err |-> Pinged(err)]
    ELSE IF err # Nil THEN [rows |-> NoRows, result |-> NoResult, err |-> err]
    ELSE [rows |-> NoRows,
          result |-> [kind |-> "AthenaResult", lastInsertedID |-> -1,
                      rowAffected |-> IF rows.updateCount.present
                                      THEN rows.updateCount.n ELSE 0],
          err |-> Nil]

(***************************************************************************)
(* The state.                                                              *)
(***************************************************************************)
VARIABLES
    config,         \* connector.config: readOnly, moneyWise, wgName, wgRemoteCreation
    wgCache,        \* getWGGroup: the memoized workgroup of the configured name
    now,            \* wall clock
    pc,             \* where the invocation stands
    api,            \* "QueryContext" or "ExecContext" ("none" when idle)
    query0,         \* the query text the caller passed
    namedArgs,      \* the arguments the caller passed
    query,          \* query, after the pseudo command is stripped and arguments interpolated
    queryWithPlaceholders,
    pseudoCommand,
    args,           \* args of QueryContext (namedValueToValue(namedArgs))
    queryID,        \* the execution identifier in use
    statusResp,     \* the last status response of the poll loop
    startOfStartQueryExecution,
    timer,          \* when time.After(pollInterval) of the current select fires
    ctxErr,         \* ctx.Err(): Nil until the caller's context is done
    firedIn,        \* the state the poll loop had last seen when the context became done
    selected,       \* the case the select of this loop iteration ran
    calls,          \* the remote calls of this invocation, in order
    ret,            \* what the invocation returned
    costs,          \* what printCost was called with, in order
    executionParams, \* the execution parameters QueryContext builds of args
    getters,        \* the goroutines that resolve the workgroup through getWG
    inflight,       \* the number of fetch functions of getWGGroup that are running
    waiters,        \* the getters that wait for the running fetch (the call of the entry)
    fetcher,        \* the getter whose client the running fetch calls (0: none)
    owner,          \* the client whose service gave the memoized workgroup (0: none)
    cursor          \* the Rows a caller iterates: its pages, its position, what it gave

vars == <<config, wgCache, now, pc, api, query0, namedArgs, query,
          queryWithPlaceholders, pseudoCommand, args, queryID, statusResp,
          startOfStartQueryExecution, timer, ctxErr, firedIn, selected, calls, ret,
          costs, executionParams, getters, inflight, waiters, fetcher, owner, cursor>>

\* the state of the concurrent resolutions through getWGGroup
group == <<getters, inflight, waiters, fetcher, owner>>

invocation == <<api, query0, namedArgs, query, queryWithPlaceholders, pseudoCommand, args>>

\* the caller's context, as the invocation sees it
context == <<ctxErr, firedIn>>

\* no Rows is being iterated
NoCursor ==
    [state |-> "none", sizes |-> <<>>, page |-> 0, buf |-> <<>>, yielded |-> <<>>,
     fetched |-> <<>>]

(***************************************************************************)
(* Inputs.                                                                 *)
(***************************************************************************)
\* goroutines that call getWG for the same workgroup name
NumGetters == 2

Getters == 1..NumGetters

\* a getter that is not inside getWG
IdleGetter == [pc |-> "idle", state |-> "", err |-> Nil, from |-> 0]

Queries ==
    { <<"SELECT">>,
      <<"CREATE">>,
      <<"SELECT", "?">>,
      <<"SELECT", "?", "?">>,
      <<QIDTok>>,
      <<>>,
      <<"pc:", "get_query_id", " ", "SELECT">>,
      <<"pc:", "get_query_id", " ", "CREATE">>,
      <<"pc:", "get_query_id">>,
      <<"pc:", "get_query_id", "_status", " ", QIDTok>>,
      <<"pc:", "stop_query_id", " ", QIDTok>>,
      <<"pc:", "stop_query_id", " ", "SELECT">>,
      <<"pc:", "get_query_id", "_status", " ", "SELECT">>,
      <<"pc:", "get_driver_version">>,
      <<"pc:", "get_driver_version", "x">>,
      <<"pc:", "bogus", " ", "SELECT">> }

ArgLists == { <<>>, <<ArgInt>>, <<ArgStr, ArgNil>>, <<ArgUnknown>> }

\* the invocations a caller makes: QueryContext with every query and argument
\* list, ExecContext with the statements and the argument lists
Invocations ==
    [api : {"QueryContext"}, query : Queries, args : ArgLists]
      \cup [api : {"ExecContext"},
            query : { <<"CREATE">>, <<"CREATE", "?">>, <<>>,
                      <<"pc:", "get_query_id", " ", "SELECT">> },
            args : ArgLists]

WGNames == {"", DefaultWGName, "wg1"}

\* the creation policy matters to a configured non-default workgroup only
Configs ==
    { c \in [readOnly : BOOLEAN, moneyWise : BOOLEAN, wgName : WGNames,
             wgRemoteCreation : BOOLEAN] :
        c.wgRemoteCreation => c.wgName = "wg1" }

StatementTypes == {"DDL", "DML"}

Reasons == {"something_broken", "context canceled"}

NonTerminal == {"QUEUED", "RUNNING"}

Terminal == {"SUCCEEDED", "FAILED", "CANCELLED"}

NoStatus == [state |-> "NONE", stype |-> "", reason |-> ""]

NoReturn == [rows |-> NoRows, result |-> NoResult, err |-> Nil]

NoCache == [valid |-> FALSE, state |-> "", expiresAt |-> 0]

\* the identifier start_execution hands out
NewQID == "QID-NEW"

\* config.GetResultPollIntervalSeconds, in clock ticks
PollInterval == 1

\* the workgroup cache keeps a fetched workgroup 10 minutes, in clock ticks
WGCacheTTL == 2

\* timeouts by statement type, in clock ticks
DDLQueryTimeout == 2

DMLQueryTimeout == 1

isQueryTimeOut(start, stype) ==
    IF stype = "DDL" THEN now - start > DDLQueryTimeout ELSE now - start > DMLQueryTimeout

\* a remote call and its outcome: the identifier passed (or, for a submission, the
\* identifier returned) and the error returned
Call(op, id, err) ==
    [op |-> op, id |-> id, query |-> <<>>, params |-> <<>>, err |-> err,
     updateCount |-> NoUpdateCount]

\* a GetQueryResults call answered with a page that carries the update count uc
ResultsCall(id, uc) ==
    [op |-> "GetQueryResults", id |-> id, query |-> <<>>, params |-> <<>>, err |-> Nil,
     updateCount |-> uc]

StartCall(q, params, id, err) ==
    [op |-> "StartQueryExecution", id |-> id, query |-> q, params |-> params, err |-> err,
     updateCount |-> NoUpdateCount]

NotFired == "-"

(***************************************************************************)
(* The local steps of QueryContext and ExecContext, up to the first remote *)
(* call.                                                                   *)
(***************************************************************************)
\* mutant: the read-only mode is not enforced
WriteViolation_NotEnforced(q) == FALSE

\* connection.go:319-325, the read-only check
WriteViolation(q) == config.readOnly /\ ~isReadOnlyStatement(q)

Returns(rows, err) ==
    [next |-> "return", rows |-> rows, err |-> err, query |-> <<>>,
     queryWithPlaceholders |-> <<>>, pseudoCommand |-> NoPC, args |-> <<>>]

\* mutant: the read-only check comes before the pseudo command is looked at
QueryContextEntry_ReadOnlyFirst(q0, nargs) ==
    LET p == ParsePseudoCommand(q0) IN
    IF WriteViolation(p.query) THEN Returns(NoRows, ErrWriteViolation)
    ELSE IF p.outcome = "version"
    THEN Returns(getHeaderlessSingleRowResultPage(DriverVersion), Nil)
    ELSE IF p.outcome = "unknown" THEN Returns(NoRows, ErrPseudoCommand)
    ELSE
      LET ip == IF Len(nargs) > 0 THEN interpolateParams(p.query, nargs)
                ELSE [s |-> p.query, err |-> Nil]
      IN
      IF ip.err # Nil THEN Returns(NoRows, ip.err)
      ELSE IF ~isQueryValid(ip.s) THEN Returns(NoRows, ErrInvalidQuery)
      ELSE [next |-> "workgroup", rows |-> NoRows, err |-> Nil, query |-> ip.s,
            queryWithPlaceholders |-> p.query, pseudoCommand |-> p.pseudoCommand,
            args |-> nargs]

\* QueryContext from its entry to the workgroup resolution
QueryContextEntry(q0, nargs) ==
    LET p == ParsePseudoCommand(q0) IN
    IF p.outcome = "version"
    THEN Returns(getHeaderlessSingleRowResultPage(DriverVersion), Nil)
    ELSE IF p.outcome = "unknown" THEN Returns(NoRows, ErrPseudoCommand)
    ELSE IF WriteViolation(p.query) THEN Returns(NoRows, ErrWriteViolation)
    ELSE
      LET ip == IF Len(nargs) > 0 THEN interpolateParams(p.query, nargs)
                ELSE [s |-> p.query, err |-> Nil]
      IN
      IF ip.err # Nil THEN Returns(NoRows, ip.err)
      ELSE IF ~isQueryValid(ip.s) THEN Returns(NoRows, ErrInvalidQuery)
      ELSE [next |-> "workgroup", rows |-> NoRows, err |-> Nil, query |-> ip.s,
            queryWithPlaceholders |-> p.query, pseudoCommand |-> p.pseudoCommand,
            args |-> nargs]

\* mutant: ExecContext hands its text and its arguments to QueryContext
ExecContextEntry_Delegates(q0, nargs) == QueryContextEntry(q0, nargs)

\* ExecContext interpolates and validates, then calls QueryContext without arguments
ExecContextEntry(q0, nargs) ==
    LET ip == IF Len(nargs) > 0 THEN interpolateParams(q0, nargs)
              ELSE [s |-> q0, err |-> Nil]
    IN
    IF ip.err # Nil THEN Returns(NoRows, ip.err)
    ELSE IF ~isQueryValid(ip.s) THEN Returns(NoRows, ErrInvalidQuery)
    ELSE QueryContextEntry(ip.s, <<>>)

Entry(a, q0, nargs) ==
    IF a = "ExecContext" THEN ExecContextEntry(q0, nargs)
    ELSE QueryContextEntry(q0, nargs)

\* connection.go:340-343: only a configured non-default workgroup is resolved
NeedsWG == config.wgName # "" /\ config.wgName # DefaultWGName

\* mutant: the stop and status commands take any text for an identifier
Dispatch_AnyText(q, pcmd, as) ==
    IF pcmd = PCGetQIDStatus THEN "qidstatus"
    ELSE IF pcmd = PCStopQID THEN "qidstop"
    ELSE IF IsQID(q) THEN "results"
    ELSE IF buildExecutionParams(as).err # Nil THEN "return"
    ELSE "start"

\* mutant: an execution identifier is submitted like a statement
Dispatch_NoBypass(q, pcmd, as) ==
    IF buildExecutionParams(as).err # Nil THEN "return" ELSE "start"

\* connection.go:374-411: where QueryContext goes once the workgroup is settled
Dispatch(q, pcmd, as) ==
    IF IsQID(q)
    THEN IF pcmd = PCGetQIDStatus THEN "qidstatus"
         ELSE IF pcmd = PCStopQID THEN "qidstop"
         ELSE "results"
    ELSE IF buildExecutionParams(as).err # Nil THEN "return"
    ELSE "start"

\* one bytes-scanned statistic handed to printCost: the execution it is about and
\* the status snapshot it is computed from ("poll": the response of the poll just
\* made, "final": the status call after the stop, "zero": the zero statistic
\* cachedQuery makes up), with the state of that snapshot
Cost(id, from, state) == [id |-> id, from |-> from, state |-> state]

\* if c.connector.config.IsMoneyWise() { printCost(...) }
printCost(id, from, state) ==
    costs' = IF config.moneyWise THEN Append(costs, Cost(id, from, state)) ELSE costs

\* the step from the settled workgroup to the next remote call
ToDispatch(a, q, pcmd, as) ==
    LET d == Dispatch(q, pcmd, as) IN
    /\ startOfStartQueryExecution' = now
    /\ pc' = IF d = "return" THEN "done" ELSE d
    /\ ret' = IF d = "return" THEN Return(a, NoRows, buildExecutionParams(as).err)
              ELSE NoReturn
    /\ queryID' = IF d \in {"qidstatus", "qidstop", "results"} THEN q[1] ELSE ""
    /\ IF d = "results"
       THEN printCost(q[1], "zero", "")
       ELSE UNCHANGED costs
    /\ executionParams' = IF d = "results" THEN <<>> ELSE buildExecutionParams(as).params

\* the invocation returns (rows, err)
Finish(rows, err) ==
    /\ pc' = "done"
    /\ ret' = Return(api, rows, err)

(***************************************************************************)
(* Actions.                                                                *)
(***************************************************************************)
Init ==
    /\ config \in Configs
    /\ wgCache = NoCache
    /\ now = 0
    /\ pc = "idle"
    /\ api = "none"
    /\ query0 = <<>>
    /\ namedArgs = <<>>
    /\ query = <<>>
    /\ queryWithPlaceholders = <<>>
    /\ pseudoCommand = NoPC
    /\ args = <<>>
    /\ queryID = ""
    /\ statusResp = NoStatus
    /\ startOfStartQueryExecution = 0
    /\ timer = 0
    /\ ctxErr = Nil
    /\ firedIn = NotFired
    /\ selected = ""
    /\ calls = <<>>
    /\ ret = NoReturn
    /\ costs = <<>>
    /\ executionParams = <<>>
    /\ getters = [g \in Getters |-> IdleGetter]
    /\ inflight = 0
    /\ waiters = {}
    /\ fetcher = 0
    /\ owner = 0
    /\ cursor = NoCursor

\* the invocation i enters: its local checks, then the workgroup resolution or
\* the dispatch
Enter(i) ==
    /\ pc = "idle"
    /\   LET a == i.api
             e == Entry(i.api, i.query, i.args)
         IN
         /\ api' = a
         /\ query0' = i.query
         /\ namedArgs' = i.args
         /\ query' = e.query
         /\ queryWithPlaceholders' = e.queryWithPlaceholders
         /\ pseudoCommand' = e.pseudoCommand
         /\ args' = e.args
         /\ IF e.next = "return"
            THEN /\ pc' = "done"
                 /\ ret' = Return(a, e.rows, e.err)
                 /\ UNCHANGED <<queryID, startOfStartQueryExecution, costs,
                           executionParams>>
            ELSE IF NeedsWG
            THEN /\ pc' = "getwg"
                 /\ UNCHANGED <<ret, queryID, startOfStartQueryExecution, costs,
                           executionParams>>
            ELSE ToDispatch(a, e.query, e.pseudoCommand, e.args)
    /\ UNCHANGED <<config, wgCache, now, statusResp, timer, context, selected, calls>>
    /\ UNCHANGED <<group, cursor>>

\* the caller invokes QueryContext or ExecContext
Invoke == \E i \in Invocations : Enter(i)

\* mutant: a cached workgroup is used whatever its state
GetWGCached_IgnoresState ==
    /\ pc = "getwg"
    /\ wgCache.valid /\ now < wgCache.expiresAt
    /\ ToDispatch(api, query, pseudoCommand, args)
    /\ UNCHANGED <<config, wgCache, now, invocation, statusResp, timer, context, selected,
                   calls>>
    /\ UNCHANGED <<group, cursor>>

\* getWG answered by the cache: no remote call
GetWGCached ==
    /\ pc = "getwg"
    /\ wgCache.valid /\ now < wgCache.expiresAt
    /\ IF wgCache.state # "ENABLED"
       THEN /\ Finish(NoRows, ErrWGDisabled)
            /\ UNCHANGED <<queryID, startOfStartQueryExecution, costs,
                           executionParams>>
       ELSE ToDispatch(api, query, pseudoCommand, args)
    /\ UNCHANGED <<config, wgCache, now, invocation, statusResp, timer, context, selected,
                   calls>>
    /\ UNCHANGED <<group, cursor>>

\* getWG fetches the workgroup remotely and memoizes it
GetWGRemote ==
    /\ pc = "getwg"
    /\ ~(wgCache.valid /\ now < wgCache.expiresAt)
    /\ \E out \in {"ENABLED", "DISABLED", "error"} :
         /\ calls' = Append(calls, Call("GetWorkGroup", config.wgName,
                                        IF out = "error" THEN ErrRemote ELSE Nil))
         /\ IF out = "error"
            THEN /\ wgCache' = NoCache
                 /\ IF config.wgRemoteCreation
                    THEN pc' = "createwg" /\ UNCHANGED ret
                    ELSE Finish(NoRows, ErrWGUnavailable)
                 /\ UNCHANGED <<queryID, startOfStartQueryExecution, costs,
                           executionParams>>
            ELSE /\ wgCache' = [valid |-> TRUE, state |-> out,
                                expiresAt |-> now + WGCacheTTL]
                 /\ IF out # "ENABLED"
                    THEN /\ Finish(NoRows, ErrWGDisabled)
                         /\ UNCHANGED <<queryID, startOfStartQueryExecution, costs,
                           executionParams>>
                    ELSE ToDispatch(api, query, pseudoCommand, args)
    /\ UNCHANGED <<config, now, invocation, statusResp, timer, context, selected>>
    /\ UNCHANGED <<group, cursor>>

\* mutant: the invocation goes on although the creation failed
CreateWG_IgnoresFailure ==
    /\ pc = "createwg"
    /\ \E err \in {Nil, ErrRemote} :
         /\ calls' = Append(calls, Call("CreateWorkGroup", config.wgName, err))
         /\ ToDispatch(api, query, pseudoCommand, args)
    /\ UNCHANGED <<config, wgCache, now, invocation, statusResp, timer, context, selected>>
    /\ UNCHANGED <<group, cursor>>

\* Workgroup.CreateWGRemotely
CreateWG ==
    /\ pc = "createwg"
    /\ \E err \in {Nil, ErrRemote} :
         /\ calls' = Append(calls, Call("CreateWorkGroup", config.wgName, err))
         /\ IF err = Nil THEN ToDispatch(api, query, pseudoCommand, args)
            ELSE /\ Finish(NoRows, err)
                 /\ UNCHANGED <<queryID, startOfStartQueryExecution, costs,
                           executionParams>>
    /\ UNCHANGED <<config, wgCache, now, invocation, statusResp, timer, context, selected>>
    /\ UNCHANGED <<group, cursor>>

\* mutant: a state that is not terminal is polled until it is
QIDStatus_PollsNonTerminal ==
    /\ pc = "qidstatus"
    /\ \E out \in NonTerminal \cup Terminal \cup {"error"} :
         /\ calls' = Append(calls, Call("GetQueryExecution", queryID,
                                        IF out = "error" THEN ErrRemote ELSE Nil))
         /\ IF out = "error" THEN Finish(NoRows, ErrRemote)
            ELSE IF out \in NonTerminal THEN pc' = "poll" /\ UNCHANGED ret
            ELSE Finish(getHeaderlessSingleRowResultPage(out), Nil)
    /\ UNCHANGED <<config, wgCache, now, invocation, queryID, statusResp,
                   startOfStartQueryExecution, timer, context, selected>>
    /\ UNCHANGED <<costs, executionParams, group, cursor>>

\* pc:get_query_id_status <QID>: one status call, its state as a single row
QIDStatus ==
    /\ pc = "qidstatus"
    /\ \E out \in NonTerminal \cup Terminal \cup {"error"} :
         /\ calls' = Append(calls, Call("GetQueryExecution", queryID,
                                        IF out = "error" THEN ErrRemote ELSE Nil))
         /\ IF out = "error" THEN Finish(NoRows, ErrRemote)
            ELSE Finish(getHeaderlessSingleRowResultPage(out), Nil)
    /\ UNCHANGED <<config, wgCache, now, invocation, queryID, statusResp,
                   startOfStartQueryExecution, timer, context, selected>>
    /\ UNCHANGED <<costs, executionParams, group, cursor>>

\* mutant: "OK" is returned whatever the stop call answered
QIDStop_AlwaysOK ==
    /\ pc = "qidstop"
    /\ \E err \in {Nil, ErrRemote} :
         /\ calls' = Append(calls, Call("StopQueryExecution", queryID, err))
         /\ Finish(getHeaderlessSingleRowResultPage("OK"), Nil)
    /\ UNCHANGED <<config, wgCache, now, invocation, queryID, statusResp,
                   startOfStartQueryExecution, timer, context, selected>>
    /\ UNCHANGED <<costs, executionParams, group, cursor>>

\* pc:stop_query_id <QID>: one stop call, "OK" as a single row
QIDStop ==
    /\ pc = "qidstop"
    /\ \E err \in {Nil, ErrRemote} :
         /\ calls' = Append(calls, Call("StopQueryExecution", queryID, err))
         /\ IF err = Nil THEN Finish(getHeaderlessSingleRowResultPage("OK"), Nil)
            ELSE Finish(NoRows, err)
    /\ UNCHANGED <<config, wgCache, now, invocation, queryID, statusResp,
                   startOfStartQueryExecution, timer, context, selected>>
    /\ UNCHANGED <<costs, executionParams, group, cursor>>

\* mutant: the request id of a failed submission is never returned
StartFailed_NoRequestID(err) == Finish(NoRows, err)

\* mutant: a failed submission is submitted again
StartFailed_Retry(err) == pc' = "start" /\ UNCHANGED ret

\* what QueryContext does with a failed StartQueryExecution (connection.go:423-431)
StartFailed(err) ==
    IF pseudoCommand = PCGetQID /\ err = ErrResponse
    THEN Finish(getHeaderlessSingleRowResultPage(ServiceRequestID), Nil)
    ELSE Finish(NoRows, err)

\* mutant: pc:get_query_id polls like any statement
Started_PollsAnyway(qid) == pc' = "poll" /\ UNCHANGED ret

\* what QueryContext does with the identifier of a started execution
\* (connection.go:437-441)
Started(qid) ==
    IF pseudoCommand = PCGetQID
    THEN Finish(getHeaderlessSingleRowResultPage(qid), Nil)
    ELSE pc' = "poll" /\ UNCHANGED ret

\* mutant: the submission carries the interpolated text
Start_SendsInterpolated ==
    /\ pc = "start"
    /\ \E err \in {Nil, ErrRemote, ErrResponse}, withID \in BOOLEAN :
         /\ err = Nil => withID
         /\ calls' = Append(calls, StartCall(query, executionParams,
                                             IF withID THEN NewQID ELSE "", err))
         /\ IF err # Nil
            THEN StartFailed(err) /\ UNCHANGED queryID
            ELSE Started(NewQID) /\ queryID' = NewQID
    /\ UNCHANGED <<config, wgCache, now, invocation, statusResp,
                   startOfStartQueryExecution, timer, context, selected>>
    /\ UNCHANGED <<costs, executionParams, group, cursor>>

\* StartQueryExecution: the submission
Start ==
    /\ pc = "start"
    /\ \E err \in {Nil, ErrRemote, ErrResponse}, withID \in BOOLEAN :
         /\ err = Nil => withID
         /\ calls' = Append(calls, StartCall(queryWithPlaceholders, executionParams,
                                             IF withID THEN NewQID ELSE "", err))
         /\ IF err # Nil
            THEN StartFailed(err) /\ UNCHANGED queryID
            ELSE Started(NewQID) /\ queryID' = NewQID
    /\ UNCHANGED <<config, wgCache, now, invocation, statusResp,
                   startOfStartQueryExecution, timer, context, selected>>
    /\ UNCHANGED <<costs, executionParams, group, cursor>>

\* mutant: a done context is honoured before the polled state is looked at
Polled_CancelFirst(resp) ==
    IF ctxErr # Nil THEN pc' = "stop" /\ UNCHANGED <<ret, timer, costs>>
    ELSE
    CASE resp.state = "CANCELLED" ->
            /\ printCost(queryID, "poll", resp.state)
            /\ Finish(NoRows, ContextCanceled) /\ UNCHANGED timer
      [] resp.state = "FAILED" ->
            /\ Finish(NoRows, Err("errors.New", resp.reason))
            /\ UNCHANGED <<timer, costs>>
      [] resp.state = "SUCCEEDED" ->
            /\ printCost(queryID, "poll", resp.state)
            /\ pc' = "results" /\ UNCHANGED <<ret, timer>>
      [] OTHER -> pc' = "select" /\ timer' = now + PollInterval /\ UNCHANGED <<ret, costs>>

\* mutant: a Cancelled execution is waited for like a running one
Polled_KeepsPolling(resp) ==
    CASE resp.state = "FAILED" ->
            /\ Finish(NoRows, Err("errors.New", resp.reason))
            /\ UNCHANGED <<timer, costs>>
      [] resp.state = "SUCCEEDED" ->
            /\ printCost(queryID, "poll", resp.state)
            /\ pc' = "results" /\ UNCHANGED <<ret, timer>>
      [] OTHER -> pc' = "select" /\ timer' = now + PollInterval /\ UNCHANGED <<ret, costs>>

\* mutant: a Failed execution is reported without the reason of the backend
Polled_FailedGeneric(resp) ==
    CASE resp.state = "CANCELLED" ->
            /\ printCost(queryID, "poll", resp.state)
            /\ Finish(NoRows, ContextCanceled) /\ UNCHANGED timer
      [] resp.state = "FAILED" -> Finish(NoRows, ErrRemote) /\ UNCHANGED <<timer, costs>>
      [] resp.state = "SUCCEEDED" ->
            /\ printCost(queryID, "poll", resp.state)
            /\ pc' = "results" /\ UNCHANGED <<ret, timer>>
      [] OTHER -> pc' = "select" /\ timer' = now + PollInterval /\ UNCHANGED <<ret, costs>>

\* the switch on the polled state (connection.go:456-485)
Polled(resp) ==
    CASE resp.state = "CANCELLED" ->
            /\ printCost(queryID, "poll", resp.state)
            /\ Finish(NoRows, ContextCanceled) /\ UNCHANGED timer
      [] resp.state = "FAILED" ->
            /\ Finish(NoRows, Err("errors.New", resp.reason))
            /\ UNCHANGED <<timer, costs>>
      [] resp.state = "SUCCEEDED" ->
            /\ printCost(queryID, "poll", resp.state)
            /\ pc' = "results" /\ UNCHANGED <<ret, timer>>
      [] OTHER -> pc' = "select" /\ timer' = now + PollInterval /\ UNCHANGED <<ret, costs>>

\* The status responses the remote service can give after the response last: the
\* execution moves QUEUED -> RUNNING -> terminal, its statement type is fixed, and
\* a FAILED response carries the reason of the state change.
StatusAfter(last) ==
    { r \in [state : NonTerminal \cup Terminal, stype : StatementTypes,
             reason : Reasons \cup {""}] :
        /\ last.state # "NONE" => r.stype = last.stype
        /\ last.state = "RUNNING" => r.state # "QUEUED"
        /\ r.state = "FAILED" <=> r.reason # "" }

\* mutant: a failed poll is made again
Poll_RetriesFailure ==
    /\ pc = "poll"
    /\ selected' = ""
    /\ \/ /\ calls' = Append(calls, Call("GetQueryExecution", queryID, ErrRemote))
          /\ pc' = "poll" /\ UNCHANGED ret
          /\ UNCHANGED <<statusResp, timer, costs>>
       \/ \E resp \in StatusAfter(statusResp) :
            /\ calls' = Append(calls, Call("GetQueryExecution", queryID, Nil))
            /\ statusResp' = resp
            /\ Polled(resp)
    /\ UNCHANGED <<config, wgCache, now, invocation, queryID,
                   startOfStartQueryExecution, context>>
    /\ UNCHANGED <<executionParams, group, cursor>>

\* one GetQueryExecution of the poll loop
Poll ==
    /\ pc = "poll"
    /\ selected' = ""
    /\ \/ /\ calls' = Append(calls, Call("GetQueryExecution", queryID, ErrRemote))
          /\ Finish(NoRows, ErrRemote)
          /\ UNCHANGED <<statusResp, timer, costs>>
       \/ \E resp \in StatusAfter(statusResp) :
            /\ calls' = Append(calls, Call("GetQueryExecution", queryID, Nil))
            /\ statusResp' = resp
            /\ Polled(resp)
    /\ UNCHANGED <<config, wgCache, now, invocation, queryID,
                   startOfStartQueryExecution, context>>
    /\ UNCHANGED <<executionParams, group, cursor>>

\* mutant: the select has no case for the caller's context
SelectCtxDone_NoCase ==
    /\ FALSE
    /\ UNCHANGED vars

\* select: case <-ctx.Done()
SelectCtxDone ==
    /\ pc = "select"
    /\ ctxErr # Nil
    /\ selected' = "ctx"
    /\ pc' = "stop"
    /\ UNCHANGED <<config, wgCache, now, invocation, queryID, statusResp,
                   startOfStartQueryExecution, timer, context, calls, ret>>
    /\ UNCHANGED <<costs, executionParams, group, cursor>>

\* mutant: a timed-out execution is stopped remotely
TimerFired_StopsOnTimeout ==
    IF isQueryTimeOut(startOfStartQueryExecution, statusResp.stype)
    THEN pc' = "stop" /\ UNCHANGED ret
    ELSE pc' = "poll" /\ UNCHANGED ret

\* the timer case: the timeout check, then the next iteration
\* (connection.go:512-521)
TimerFired ==
    IF isQueryTimeOut(startOfStartQueryExecution, statusResp.stype)
    THEN Finish(NoRows, ErrQueryTimeout)
    ELSE pc' = "poll" /\ UNCHANGED ret

\* mutant: the timer case runs without waiting for the poll interval
SelectTimer_NoWait ==
    /\ pc = "select"
    /\ selected' = "timer"
    /\ TimerFired
    /\ UNCHANGED <<config, wgCache, now, invocation, queryID, statusResp,
                   startOfStartQueryExecution, timer, context, calls>>
    /\ UNCHANGED <<costs, executionParams, group, cursor>>

\* select: case <-time.After(pollInterval)
SelectTimer ==
    /\ pc = "select"
    /\ now >= timer
    /\ selected' = "timer"
    /\ TimerFired
    /\ UNCHANGED <<config, wgCache, now, invocation, queryID, statusResp,
                   startOfStartQueryExecution, timer, context, calls>>
    /\ UNCHANGED <<costs, executionParams, group, cursor>>

\* mutant: a failed stop call is made again
Stopped_RetryStop(err) ==
    IF err # Nil THEN pc' = "stop" /\ UNCHANGED ret
    ELSE IF config.moneyWise THEN pc' = "finalstatus" /\ UNCHANGED ret
    ELSE Finish(NoRows, ctxErr)

\* mutant: the error of the stop call is dropped
Stopped_IgnoresStopError(err) ==
    IF config.moneyWise THEN pc' = "finalstatus" /\ UNCHANGED ret
    ELSE Finish(NoRows, ctxErr)

\* what the cancellation branch does with the outcome of its stop call
\* (connection.go:493-511)
Stopped(err) ==
    IF err # Nil THEN Finish(NoRows, err)
    ELSE IF config.moneyWise THEN pc' = "finalstatus" /\ UNCHANGED ret
    ELSE Finish(NoRows, ctxErr)

\* the StopQueryExecution of the cancellation branch (connection.go:489-492)
Stop ==
    /\ pc = "stop"
    /\ \E err \in {Nil, ErrRemote} :
         /\ calls' = Append(calls, Call("StopQueryExecution", queryID, err))
         /\ Stopped(err)
    /\ UNCHANGED <<config, wgCache, now, invocation, queryID, statusResp,
                   startOfStartQueryExecution, timer, context, selected>>
    /\ UNCHANGED <<costs, executionParams, group, cursor>>

\* the status call for the cost of a stopped query; its answer is only printed
\* and its error dropped
FinalStatus ==
    /\ pc = "finalstatus"
    /\ calls' = Append(calls, Call("GetQueryExecution", queryID, Nil))
    /\ printCost(queryID, "final", "")
    /\ Finish(NoRows, ctxErr)
    /\ UNCHANGED <<config, wgCache, now, invocation, queryID, statusResp,
                   startOfStartQueryExecution, timer, context, selected>>
    /\ UNCHANGED <<executionParams, group, cursor>>

UpdateCounts == {NoUpdateCount, [present |-> TRUE, n |-> 1024]}

\* NewRows fetches the first result page of queryID
Results ==
    /\ pc = "results"
    /\ \/ /\ calls' = Append(calls, Call("GetQueryResults", queryID, ErrRemote))
          /\ Finish(NoRows, ErrRemote)
       \/ \E uc \in UpdateCounts :
            /\ calls' = Append(calls, ResultsCall(queryID, uc))
            /\ Finish(NewRows(queryID, uc), Nil)
    /\ UNCHANGED <<config, wgCache, now, invocation, queryID, statusResp,
                   startOfStartQueryExecution, timer, context, selected>>
    /\ UNCHANGED <<costs, executionParams, group, cursor>>

\* the invocation is over; the connection is ready for the next one. Only
\* differences of clock readings are ever compared, so the clock is rebased to 0
\* (and the expiry of the cached workgroup with it).
Reset ==
    /\ pc = "done"
    /\ pc' = "idle"
    /\ api' = "none"
    /\ query0' = <<>>
    /\ namedArgs' = <<>>
    /\ query' = <<>>
    /\ queryWithPlaceholders' = <<>>
    /\ pseudoCommand' = NoPC
    /\ args' = <<>>
    /\ queryID' = ""
    /\ statusResp' = NoStatus
    /\ startOfStartQueryExecution' = 0
    /\ timer' = 0
    /\ ctxErr' = Nil
    /\ firedIn' = NotFired
    /\ selected' = ""
    /\ calls' = <<>>
    /\ ret' = NoReturn
    /\ costs' = <<>>
    /\ executionParams' = <<>>
    /\ now' = 0
    /\ wgCache' = IF wgCache.valid /\ now < wgCache.expiresAt
                  THEN [wgCache EXCEPT !.expiresAt = wgCache.expiresAt - now]
                  ELSE NoCache
    /\ UNCHANGED config
    /\ UNCHANGED <<group, cursor>>

(***************************************************************************)
(* The environment: the clock and the caller's context.                    *)
(***************************************************************************)
\* time passes while the invocation can still read the clock
Tick ==
    /\ now < MaxTime
    /\ pc \in {"getwg", "createwg", "start", "poll", "select"}
    /\ now' = now + 1
    /\ UNCHANGED <<config, wgCache, pc, invocation, queryID, statusResp,
                   startOfStartQueryExecution, timer, context, selected, calls, ret>>
    /\ UNCHANGED <<costs, executionParams, group, cursor>>

\* the caller cancels the context, or its deadline passes: before the submission
\* or anywhere in the poll loop, where ctx.Done() is read
CtxDone ==
    /\ pc \in {"start", "poll", "select"}
    /\ ctxErr = Nil
    /\ ctxErr' \in {ContextCanceled, ContextDeadlineExceeded}
    /\ firedIn' = statusResp.state
    /\ UNCHANGED <<config, wgCache, now, pc, invocation, queryID, statusResp,
                   startOfStartQueryExecution, timer, selected, calls, ret>>
    /\ UNCHANGED <<costs, executionParams, group, cursor>>

Next ==
    \/ Invoke
    \/ GetWGCached
    \/ GetWGRemote
    \/ CreateWG
    \/ QIDStatus
    \/ QIDStop
    \/ Start
    \/ Poll
    \/ SelectCtxDone
    \/ SelectTimer
    \/ Stop
    \/ FinalStatus
    \/ Results
    \/ Reset
    \/ Tick
    \/ CtxDone

Spec == Init /\ [][Next]_vars

(***************************************************************************)
(* getWG called by several goroutines (several connections share the       *)
(* package-level getWGGroup): the memoizer runs one fetch per key and      *)
(* hands its outcome to every caller that waits for it.                    *)
(***************************************************************************)
\* the fetches one behaviour of SpecWG starts
MaxFetches == 3

\* the connection, which stands still while the getters run
connection ==
    <<config, pc, invocation, queryID, statusResp, startOfStartQueryExecution, timer,
      context, selected, ret, costs, executionParams, cursor>>

\* the configuration the getters resolve the workgroup of
WGConfig ==
    [readOnly |-> FALSE, moneyWise |-> FALSE, wgName |-> "wg1", wgRemoteCreation |-> FALSE]

\* mutant: an entry never expires
Fresh_Forever == wgCache.valid

\* the entry of the key holds a value that has not expired
Fresh == wgCache.valid /\ now < wgCache.expiresAt

\* mutant: every caller that misses the cache runs its own fetch
StartsFetch_Always == TRUE

\* a caller that misses the cache starts the fetch unless one is running for the
\* key (the entry has a call other callers wait on)
StartsFetch == waiters = {}

\* mutant: the outcome of a failed fetch is kept like a value
Memoized_KeepsFailure(out) ==
    [valid |-> TRUE, state |-> IF out = "error" THEN "" ELSE out,
     expiresAt |-> now + WGCacheTTL]

\* the entry after a fetch: a workgroup is kept for the TTL counted from the end
\* of the fetch (wg.go:86-89), a failure is not kept (wg.go:82-84)
Memoized(out) ==
    IF out = "error" THEN NoCache
    ELSE [valid |-> TRUE, state |-> out, expiresAt |-> now + WGCacheTTL]

\* what getWG returns to a getter (wg.go:92-96); from: the fetch the value comes
\* from, 0 for a value of the cache
Got(state, err, from) == [pc |-> "done", state |-> state, err |-> err, from |-> from]

InitWG ==
    /\ Init
    /\ config = WGConfig

\* the client getter g passes to getWG: each getter is a session of its own
ClientOf(g) == g

\* mutant: the entry serves the client it was fetched through only; another
\* client's getter asks its own service
DoHit_OwnClient(g) ==
    /\ getters[g].pc = "idle"
    /\ Fresh
    /\ IF owner = ClientOf(g)
       THEN /\ getters' = [getters EXCEPT ![g] = Got(wgCache.state, Nil, 0)]
            /\ UNCHANGED calls
       ELSE \E out \in {"ENABLED", "DISABLED"} :
            /\ Len(calls) + inflight < MaxFetches
            /\ calls' = Append(calls, Call("GetWorkGroup", config.wgName, Nil))
            /\ getters' = [getters EXCEPT ![g] = Got(out, Nil, Len(calls) + 1)]
    /\ UNCHANGED <<connection, wgCache, now, inflight, waiters, fetcher, owner>>

\* getWG answered by the entry of the key
DoHit(g) ==
    /\ getters[g].pc = "idle"
    /\ Fresh
    /\ getters' = [getters EXCEPT ![g] = Got(wgCache.state, Nil, 0)]
    /\ UNCHANGED <<connection, wgCache, now, calls, inflight, waiters, fetcher, owner>>

\* getWG finds no fresh value: the getter waits for the fetch of the key, which it
\* starts when none is running
DoMiss(g) ==
    /\ getters[g].pc = "idle"
    /\ ~Fresh
    /\ IF StartsFetch
       THEN /\ Len(calls) + inflight < MaxFetches
            /\ inflight' = inflight + 1
            /\ fetcher' = g
       ELSE UNCHANGED <<inflight, fetcher>>
    /\ waiters' = waiters \cup {g}
    /\ getters' = [getters EXCEPT ![g] =
                     [pc |-> "waiting", state |-> "", err |-> Nil,
                      from |-> Len(calls) + inflight']]
    /\ UNCHANGED <<connection, wgCache, now, calls, owner>>

\* the fetch function ends (wg.go:78-90): GetWorkGroup has answered, the entry is
\* updated and every waiting getter receives the outcome
FetchDone ==
    /\ inflight > 0
    /\ \E out \in {"ENABLED", "DISABLED", "error"} :
         LET err == IF out = "error" THEN ErrRemote ELSE Nil IN
         /\ calls' = Append(calls, Call("GetWorkGroup", config.wgName, err))
         /\ wgCache' = Memoized(out)
         /\ getters' = [g \in Getters |->
                          IF g \in waiters
                          THEN Got(IF out = "error" THEN "" ELSE out, err, Len(calls) + 1)
                          ELSE getters[g]]
         /\ owner' = IF Memoized(out).valid THEN ClientOf(fetcher) ELSE 0
    /\ inflight' = inflight - 1
    /\ waiters' = {}
    /\ fetcher' = 0
    /\ UNCHANGED <<connection, now>>

\* the getter is done with the workgroup and may resolve it again
GetterReturns(g) ==
    /\ getters[g].pc = "done"
    /\ getters' = [getters EXCEPT ![g] = IdleGetter]
    /\ UNCHANGED <<connection, wgCache, now, calls, inflight, waiters, fetcher, owner>>

\* time passes
TickWG ==
    /\ now < MaxTime
    /\ now' = now + 1
    /\ UNCHANGED <<connection, wgCache, calls, group, cursor>>

NextWG ==
    \/ \E g \in Getters : DoHit(g)
    \/ \E g \in Getters : DoMiss(g)
    \/ FetchDone
    \/ \E g \in Getters : GetterReturns(g)
    \/ TickWG

SpecWG == InitWG /\ [][NextWG]_vars

(***************************************************************************)
(* The connection as database/sql drives it besides its queries: the       *)
(* health check and the transaction start.                                 *)
(***************************************************************************)
\* the query of Ping
PingQuery == <<"SELECT", " ", "1">>

\* Ping: QueryContext(ctx, "SELECT 1", nil) (connection.go:534-541)
Ping == Enter([api |-> "Ping", query |-> PingQuery, args |-> <<>>])

\* the caller runs the query of Ping itself
QueryPing == Enter([api |-> "QueryContext", query |-> PingQuery, args |-> <<>>])

\* sql.TxOptions
TxOptions == [isolation : {"default", "serializable"}, readOnly : BOOLEAN]

\* mutant: a read-only transaction is opened
Began_OpensReadOnly(opts) ==
    IF opts \in TxOptions /\ opts.readOnly
    THEN [rows |-> NoRows, result |-> [kind |-> "Tx"], err |-> Nil]
    ELSE [rows |-> NoRows, result |-> NoResult, err |-> ErrAthenaTransactionUnsupported]

\* return nil, ErrAthenaTransactionUnsupported (connection.go:559, 564)
Began(opts) ==
    [rows |-> NoRows, result |-> NoResult, err |-> ErrAthenaTransactionUnsupported]

\* what a transaction start leaves alone: all of the connection but the record of
\* the call and of what it returned
untouched ==
    <<config, wgCache, now, query0, namedArgs, query, queryWithPlaceholders,
      pseudoCommand, args, queryID, statusResp, startOfStartQueryExecution, timer,
      context, selected, calls, costs, executionParams, group, cursor>>

\* Begin (connection.go:558-560)
Begin ==
    /\ pc = "idle"
    /\ api' = "Begin"
    /\ pc' = "done"
    /\ ret' = Began([isolation |-> "default", readOnly |-> FALSE])
    /\ UNCHANGED untouched

\* BeginTx (connection.go:563-565)
BeginTx ==
    /\ pc = "idle"
    /\ \E opts \in TxOptions :
         /\ api' = "BeginTx"
         /\ pc' = "done"
         /\ ret' = Began(opts)
    /\ UNCHANGED untouched

NextConn ==
    \/ Ping
    \/ QueryPing
    \/ Begin
    \/ BeginTx
    \/ GetWGCached
    \/ GetWGRemote
    \/ CreateWG
    \/ Start
    \/ Poll
    \/ SelectCtxDone
    \/ SelectTimer
    \/ Stop
    \/ FinalStatus
    \/ Results
    \/ Reset
    \/ Tick
    \/ CtxDone

SpecConn == Init /\ [][NextConn]_vars

(***************************************************************************)
(* interpolateParams and buildExecutionParams on their own: the query text *)
(* and the arguments are drawn at the start, each function is applied to   *)
(* them once.                                                              *)
(***************************************************************************)
MaxQueryLen == 3

MaxArgs == 2

\* a string argument with a quote and a question mark in it
ArgQuote == [type |-> "string", s |-> <<"'", "?">>]

\* a string argument as long as ten times the longest query
ArgBig == [type |-> "string", s |-> <<"BIG">>]

QueryTokens == {"SELECT", "?", "BIG"}

ArgValues == {ArgNil, ArgInt, ArgBool, ArgStr, ArgQuote, ArgBig, ArgUnknown}

SeqsUpTo(S, n) == UNION {[1..k -> S] : k \in 0..n}

InitArgs ==
    /\ query0 \in SeqsUpTo(QueryTokens, MaxQueryLen)
    /\ namedArgs \in SeqsUpTo(ArgValues, MaxArgs)
    /\ config = WGConfig
    /\ wgCache = NoCache
    /\ now = 0
    /\ pc = "idle"
    /\ api = "none"
    /\ query = <<>>
    /\ queryWithPlaceholders = <<>>
    /\ pseudoCommand = NoPC
    /\ args = <<>>
    /\ queryID = ""
    /\ statusResp = NoStatus
    /\ startOfStartQueryExecution = 0
    /\ timer = 0
    /\ ctxErr = Nil
    /\ firedIn = NotFired
    /\ selected = ""
    /\ calls = <<>>
    /\ ret = NoReturn
    /\ costs = <<>>
    /\ executionParams = <<>>
    /\ getters = [g \in Getters |-> IdleGetter]
    /\ inflight = 0
    /\ waiters = {}
    /\ fetcher = 0
    /\ owner = 0
    /\ cursor = NoCursor

\* what the two functions leave alone
bystanders ==
    <<config, wgCache, now, query0, namedArgs, queryWithPlaceholders, pseudoCommand,
      queryID, statusResp, startOfStartQueryExecution, timer, context, selected, calls,
      costs, group, cursor>>

\* query, err = c.interpolateParams(query, args)
Interpolate ==
    /\ pc = "idle"
    /\ LET r == interpolateParams(query0, namedArgs) IN
         /\ query' = r.s
         /\ ret' = [rows |-> NoRows, result |-> NoResult, err |-> r.err]
    /\ api' = "interpolateParams"
    /\ args' = namedArgs
    /\ pc' = "interpolated"
    /\ UNCHANGED <<executionParams, bystanders>>

\* executionParams, err := c.buildExecutionParams(args)
BuildParams ==
    /\ pc = "idle"
    /\ LET r == buildExecutionParams(namedArgs) IN
         /\ executionParams' = r.params
         /\ ret' = [rows |-> NoRows, result |-> NoResult, err |-> r.err]
    /\ api' = "buildExecutionParams"
    /\ args' = namedArgs
    /\ pc' = "built"
    /\ UNCHANGED <<query, bystanders>>

NextArgs ==
    \/ Interpolate
    \/ BuildParams

SpecArgs == InitArgs /\ [][NextArgs]_vars

(***************************************************************************)
(* One invocation of QueryContext with a plain statement, every remote     *)
(* call of which returns and whose select runs a case that is ready.       *)
(***************************************************************************)
\* a connection whose workgroup needs no resolution
InitLive ==
    /\ Init
    /\ ~NeedsWG

NextLive ==
    \/ QueryPing
    \/ Start
    \/ Poll
    \/ SelectCtxDone
    \/ SelectTimer
    \/ Stop
    \/ FinalStatus
    \/ Results
    \/ Tick
    \/ CtxDone

\* every remote call returns (StartQueryExecution, GetQueryExecution,
\* StopQueryExecution, GetQueryResults), and a select with a ready case runs one
Returning ==
    /\ WF_vars(Start)
    /\ WF_vars(Poll)
    /\ WF_vars(SelectCtxDone \/ SelectTimer)
    /\ WF_vars(Stop)
    /\ WF_vars(FinalStatus)
    /\ WF_vars(Results)

SpecLive == InitLive /\ [][NextLive]_vars /\ Returning

(***************************************************************************)
(* The cursor over the result pages of a succeeded execution. The remote   *)
(* service serves the page chain of MultiplePagesQueryResponse: the first  *)
(* page for the empty token, then a1, a2, a3, a4, the last page without a  *)
(* continuation token. The first page carries the header row as data.      *)
(***************************************************************************)
MaxPageRows == 2

\* the continuation tokens in the order of their pages (part_001:373-388)
PageTokens == <<"", "a1", "a2", "a3", "a4">>

NumPages == Len(PageTokens)

\* the NextToken of page k, "none" on the last page
NextTokenOf(k) == IF k < NumPages THEN PageTokens[k + 1] ELSE "none"

\* the i-th data row of page k; the header row is row 0 of page 1
Row(k, i) == [page |-> k, idx |-> i]

\* the rows of page k as the service sends them, n of them data rows
PageOf(k, n) ==
    (IF k = 1 THEN <<Row(1, 0)>> ELSE <<>>) \o [i \in 1..n |-> Row(k, i)]

\* mutant: the first row of every page is taken for the header
SkipHeader_EveryPage(k, rows) == Tail(rows)

\* the rows the cursor keeps of page k: the header row is dropped on the first page
SkipHeader(k, rows) == IF k = 1 THEN Tail(rows) ELSE rows

\* the cursor c after it has fetched page k
Fetched(c, k) ==
    [c EXCEPT !.state = "open",
              !.page = k,
              !.buf = SkipHeader(k, PageOf(k, c.sizes[k])),
              !.fetched = Append(c.fetched, PageTokens[k])]

\* the cursor after it has given the first row it holds
Given(c) == [c EXCEPT !.buf = Tail(c.buf), !.yielded = Append(c.yielded, Head(c.buf))]

\* no cursor yet, on a connection of the default workgroup
InitRows ==
    /\ InitLive
    /\ config = [readOnly |-> FALSE, moneyWise |-> FALSE, wgName |-> "",
                 wgRemoteCreation |-> FALSE]

\* what the cursor leaves alone
standstill ==
    <<config, wgCache, now, pc, invocation, queryID, statusResp,
      startOfStartQueryExecution, timer, context, selected, calls, ret, costs,
      executionParams, group>>

\* NewRows: the cursor is made and holds the first page of a succeeded execution
\* whose pages hold 1..MaxPageRows data rows each
RowsOpen ==
    /\ cursor.state = "none"
    /\ \E sizes \in [1..NumPages -> 1..MaxPageRows] :
         cursor' = Fetched([NoCursor EXCEPT !.sizes = sizes], 1)
    /\ UNCHANGED standstill

\* Rows.Next: the next row of the page held; when the page is exhausted the page
\* of its continuation token is fetched, and without a token the data ends
RowsNext ==
    /\ cursor.state = "open"
    /\ cursor' = IF cursor.buf # <<>> THEN Given(cursor)
                 ELSE IF NextTokenOf(cursor.page) = "none"
                 THEN [cursor EXCEPT !.state = "eof"]
                 ELSE LET c == Fetched(cursor, cursor.page + 1) IN
                      IF c.buf # <<>> THEN Given(c) ELSE c
    /\ UNCHANGED standstill

\* Rows.Close: legal while rows remain
RowsClose ==
    /\ cursor.state \in {"open", "eof"}
    /\ cursor' = [cursor EXCEPT !.state = "closed"]
    /\ UNCHANGED standstill

NextRows ==
    \/ RowsOpen
    \/ RowsNext
    \/ RowsClose

SpecRows == InitRows /\ [][NextRows]_vars

(***************************************************************************)
(* Properties.                                                             *)
(***************************************************************************)
RemoteOps ==
    {"GetWorkGroup", "CreateWorkGroup", "StartQueryExecution", "GetQueryExecution",
     "StopQueryExecution", "GetQueryResults"}

\* the number of calls of op this invocation has made
NumCalls(op) == Cardinality({i \in DOMAIN calls : calls[i].op = op})

Done == pc = "done"

NoOutput == ret.rows = NoRows /\ ret.result = NoResult

\* the statement left of the text once the pseudo command is stripped is not
\* classified read-only
NotReadOnly(text) ==
    LET p == ParsePseudoCommand(text) IN
    p.outcome = "go" /\ ~isReadOnlyStatement(p.query)

\* what ExecContext's own interpolation makes of the caller's query
ExecInterpolated ==
    IF Len(namedArgs) > 0 THEN interpolateParams(query0, namedArgs)
    ELSE [s |-> query0, err |-> Nil]

\* the error of ExecContext's own checks (Nil when they pass)
ExecOwnError ==
    IF ExecInterpolated.err # Nil THEN ExecInterpolated.err
    ELSE IF ~isQueryValid(ExecInterpolated.s) THEN ErrInvalidQuery
    ELSE Nil

\* C1 as claimed: in a read-only session every invocation, of QueryContext or of
\* ExecContext, given a statement that is not classified read-only fails with
\* the write-violation error and makes no remote call (stated for the non-empty
\* statements).
C1_AsClaimed ==
    (Done /\ config.readOnly /\ query0 # <<>> /\ NotReadOnly(query0))
        => (ret.err = ErrWriteViolation /\ calls = <<>>)

\* C1 (amended): in a read-only session an invocation given a statement that is
\* not classified read-only makes no remote call of any kind and returns an error
\* and no output. The error is the write-violation error for QueryContext, and
\* for ExecContext when its own interpolation and validity checks pass; when they
\* fail, ExecContext returns their error.
C1_ReadOnlyRejectsWrites ==
    (Done /\ config.readOnly /\ NotReadOnly(query0))
        => /\ calls = <<>>
           /\ NoOutput
           /\ ret.err # Nil
           /\ api = "QueryContext" => ret.err = ErrWriteViolation
           /\ api = "ExecContext" =>
                ret.err = IF ExecOwnError # Nil THEN ExecOwnError ELSE ErrWriteViolation

\* C1 witness: a write statement refused in a read-only session whose configured
\* workgroup would otherwise have been resolved remotely
C1_Witness ==
    /\ Done /\ config.readOnly /\ config.wgName = "wg1"
    /\ api = "ExecContext" /\ query0 = <<"CREATE", "?">> /\ namedArgs = <<ArgInt>>
    /\ ret.err = ErrWriteViolation

\* C2: an invocation calls start_execution at most once, whatever the outcome of
\* that call or of any later poll, stop or result fetch.
C2_AtMostOneSubmission == NumCalls("StartQueryExecution") <= 1

\* C2 witness: the submission succeeded and a later poll failed; the invocation
\* is over with one submission
C2_Witness ==
    /\ Done
    /\ NumCalls("StartQueryExecution") = 1
    /\ NumCalls("GetQueryExecution") = 2
    /\ calls[Len(calls)].op = "GetQueryExecution"
    /\ calls[Len(calls)].err = ErrRemote

\* the calls of op this invocation has made
CallsOf(op) == {calls[i] : i \in {j \in DOMAIN calls : calls[j].op = op}}

ContextErrors == {ContextCanceled, ContextDeadlineExceeded}

\* C3 as claimed: when the caller's cancellation signal fires while the poll loop
\* has last seen the execution Queued or Running, the invocation issues exactly
\* one stop_execution call and returns a cancellation-condition error.
C3_AsClaimed ==
    (Done /\ firedIn \in NonTerminal)
        => /\ NumCalls("StopQueryExecution") = 1
           /\ ret.err \in ContextErrors

\* C3 (amended): when the select of the poll loop runs its cancellation case (the
\* signal is observed after a poll returned Queued or Running), the invocation
\* issues exactly one stop_execution call, for the identifier of the execution,
\* and never returns the query-timeout error: it returns a cancellation-condition
\* error, or the error of the stop call when that call fails.  An invocation whose
\* select never runs the cancellation case (the timer case won, and the timeout
\* check or the next poll ended the invocation) issues no stop_execution call.
C3_CancelCaseStopsOnce ==
    /\ pc = "stop" =>
         /\ ctxErr # Nil
         /\ statusResp.state \in NonTerminal
         /\ NumCalls("StopQueryExecution") = 0
    /\ (selected = "ctx" /\ pc # "stop") =>
         /\ NumCalls("StopQueryExecution") = 1
         /\ \A c \in CallsOf("StopQueryExecution") : c.id = queryID /\ queryID = NewQID
    /\ (Done /\ selected = "ctx") =>
         /\ ret.err # ErrQueryTimeout
         /\ \A c \in CallsOf("StopQueryExecution") :
              ret.err \in ContextErrors \/ (c.err # Nil /\ ret.err = c.err)
    /\ (Done /\ firedIn \in NonTerminal /\ selected # "ctx") =>
         NumCalls("StopQueryExecution") = 0

\* C3 witness: the signal fired while the execution was seen Running, the
\* cancellation case ran and the invocation returned the cancellation reason
C3_Witness ==
    /\ Done /\ selected = "ctx" /\ firedIn = "RUNNING"
    /\ statusResp.state = "RUNNING"
    /\ ret.err = ContextDeadlineExceeded

\* C4: on the cancellation case of the poll loop the invocation returns the
\* context's own error when the stop call succeeds and the stop call's error, not
\* the cancellation reason, when it fails; in both cases no rows.
C4_CancelOutcome ==
    (Done /\ selected = "ctx")
        => /\ CallsOf("StopQueryExecution") # {}
           /\ \A c \in CallsOf("StopQueryExecution") :
                /\ c.err = Nil => (ret.err = ctxErr /\ ctxErr \in ContextErrors)
                /\ c.err # Nil => (ret.err = c.err /\ ret.err \notin ContextErrors)
           /\ NoOutput

\* C4 witness: the stop call of the cancellation case failed
C4_Witness ==
    /\ Done /\ selected = "ctx"
    /\ \E c \in CallsOf("StopQueryExecution") : c.err # Nil
    /\ ret.err = ErrRemote /\ ctxErr = ContextCanceled

\* the invocation went through the submission (not pc:stop_query_id <id>)
Submitted == NumCalls("StartQueryExecution") > 0

\* C5: a timeout found by the timer case ends the invocation with the
\* query-timeout error and without a stop_execution call; in the poll loop a
\* stop_execution call is made only once the caller's signal has fired and the
\* cancellation case has run, never on timeout, on a terminal state or on a poll
\* error.
C5_TimeoutNeverStops ==
    /\ [](/\ (Done /\ selected = "timer") =>
               /\ ret.err = ErrQueryTimeout
               /\ NoOutput
               /\ NumCalls("StopQueryExecution") = 0
          /\ (Done /\ ret.err = ErrQueryTimeout) =>
               /\ selected = "timer"
               /\ NumCalls("StopQueryExecution") = 0
          /\ (Submitted /\ NumCalls("StopQueryExecution") > 0) =>
               /\ ctxErr # Nil
               /\ selected = "ctx")
    /\ [][(pc = "select" /\ selected' = "timer"
             /\ isQueryTimeOut(startOfStartQueryExecution, statusResp.stype))
            => (pc' = "done" /\ ret'.err = ErrQueryTimeout /\ calls' = calls)]_vars

\* C5 witness: the timer case found the timeout although the caller's signal
\* had fired too
C5_Witness ==
    /\ Done /\ selected = "timer" /\ ret.err = ErrQueryTimeout
    /\ ctxErr # Nil
    /\ NumCalls("GetQueryExecution") >= 1

\* C6: once a poll of the invocation has seen Succeeded, Failed or Cancelled, the
\* invocation is out of the poll loop: it makes no further status call and its
\* view of the execution stays in that terminal state.
C6_Terminality ==
    /\ [](statusResp.state \in Terminal => pc \in {"results", "done"})
    /\ [][(statusResp.state \in Terminal /\ pc' # "idle")
            => /\ statusResp' = statusResp
               /\ NumCalls("GetQueryExecution")' = NumCalls("GetQueryExecution")
               /\ pc' \in {"results", "done"}]_vars

\* C6 witness: the second poll saw Succeeded and the result fetch failed
C6_Witness ==
    /\ Done /\ statusResp.state = "SUCCEEDED"
    /\ NumCalls("GetQueryExecution") = 2
    /\ NumCalls("GetQueryResults") = 1
    /\ ret.err = ErrRemote

\* C7: when a poll sees Failed the invocation ends there with an error whose
\* text is the state-change reason of the backend; no rows, no result fetch, no
\* stop_execution.
C7_FailedReason ==
    (Done /\ statusResp.state = "FAILED")
        => /\ ret.err.text = statusResp.reason
           /\ ret.err.id = "errors.New"
           /\ NoOutput
           /\ NumCalls("GetQueryResults") = 0
           /\ NumCalls("StopQueryExecution") = 0
           /\ calls[Len(calls)].op = "GetQueryExecution"

\* C7 witness: the reason reads like the text of context.Canceled, and the error
\* is the reason, not context.Canceled
C7_Witness ==
    /\ Done /\ statusResp.state = "FAILED"
    /\ statusResp.reason = "context canceled"
    /\ ret.err # ContextCanceled
    /\ NumCalls("GetQueryExecution") = 2

\* C8 as claimed: the error returned after a caller-initiated cancellation with a
\* successful stop differs from the error returned when a poll sees the backend
\* state Cancelled (context.Canceled, connection.go:466), however the caller's
\* context was cancelled.
C8_AsClaimed ==
    (Done /\ selected = "ctx"
       /\ \A c \in CallsOf("StopQueryExecution") : c.err = Nil)
        => ret.err # ContextCanceled

\* the caller asked for pc:get_query_id with a statement as remainder
AsksQueryID ==
    /\ api = "QueryContext"
    /\ HasPrefix(query0, <<"pc:", "get_query_id", " ">>)
    /\ ~IsQID(Trim(Drop(query0, 2)))

\* C9: pc:get_query_id <sql> whose submission succeeds returns one row with one
\* column holding the identifier start_execution returned, and the invocation
\* makes no status, result or stop call.
C9_GetQueryID ==
    (Done /\ AsksQueryID /\ \E c \in CallsOf("StartQueryExecution") : c.err = Nil)
        => /\ \A c \in CallsOf("StartQueryExecution") :
                ret.rows = getHeaderlessSingleRowResultPage(c.id)
           /\ ret.err = Nil
           /\ NumCalls("GetQueryExecution") = 0
           /\ NumCalls("GetQueryResults") = 0
           /\ NumCalls("StopQueryExecution") = 0

\* C9 witness: the identifier of the submission came back as the only row
C9_Witness ==
    /\ Done /\ AsksQueryID
    /\ query0 = <<"pc:", "get_query_id", " ", "SELECT">>
    /\ NumCalls("StartQueryExecution") = 1
    /\ ret.rows = getHeaderlessSingleRowResultPage(NewQID)

\* C10 as claimed: pc:get_query_id <sql> whose submission fails returns one row
\* holding the request identifier of the failure, whatever the failure.
C10_AsClaimed ==
    (Done /\ AsksQueryID /\ \E c \in CallsOf("StartQueryExecution") : c.err # Nil)
        => /\ ret.rows = getHeaderlessSingleRowResultPage(ServiceRequestID)
           /\ ret.err = Nil
           /\ NumCalls("GetQueryExecution") = 0

\* C10 (amended): pc:get_query_id <sql> whose submission fails never polls; it
\* returns one row holding the service-assigned request identifier when the
\* failure is an HTTP response error (awshttp.ResponseError), and returns the
\* failure itself with no rows for any other failure.
C10_RequestIDOfResponseError ==
    (Done /\ AsksQueryID /\ \E c \in CallsOf("StartQueryExecution") : c.err # Nil)
        => /\ NumCalls("GetQueryExecution") = 0
           /\ NumCalls("GetQueryResults") = 0
           /\ \A c \in CallsOf("StartQueryExecution") :
                /\ c.err = ErrResponse =>
                     /\ ret.rows = getHeaderlessSingleRowResultPage(ServiceRequestID)
                     /\ ret.err = Nil
                /\ c.err # ErrResponse => (ret.err = c.err /\ NoOutput)

\* C10 witness: the request identifier of a response error came back as the row
C10_Witness ==
    /\ Done /\ AsksQueryID
    /\ \E c \in CallsOf("StartQueryExecution") : c.err = ErrResponse
    /\ ret.rows = getHeaderlessSingleRowResultPage(ServiceRequestID)

\* the value v is in what the invocation returned: a cell of the rows, the
\* execution the cursor reads, or the text of the error
Carries(v) ==
    \/ ret.rows.kind = "single" /\ \E r \in DOMAIN ret.rows.data :
                                      \E k \in DOMAIN ret.rows.data[r] : ret.rows.data[r][k] = v
    \/ ret.rows.kind = "cursor" /\ ret.rows.queryID = v
    \/ ret.err.text = v

\* C11 as claimed: when start_execution returned an execution identifier together
\* with a failure, QueryContext returns that failure and the identifier is carried
\* in what the call returns.
C11_AsClaimed ==
    Done => \A c \in CallsOf("StartQueryExecution") :
                (c.err # Nil /\ c.id # "") => (ret.err = c.err /\ Carries(c.id))

\* the getters that hold what getWG returned to them
Returned == {g \in Getters : getters[g].pc = "done"}

\* C12: single-flight. At no time are two fetches of the name running; the getters
\* that miss the cache while a fetch runs all wait for that one fetch, so K
\* concurrent resolutions make one get_workgroup call, and the getters served by
\* one fetch receive the same workgroup or the same error, the outcome of that
\* call.
C12_SingleFlight ==
    /\ inflight <= 1
    /\ waiters # {} => inflight = 1
    /\ \A g \in Getters : getters[g].pc = "waiting" <=> g \in waiters
    /\ \A g \in waiters : getters[g].from = Len(calls) + 1
    /\ \A g \in Returned :
         getters[g].from # 0 =>
           /\ getters[g].from \in DOMAIN calls
           /\ getters[g].err = calls[getters[g].from].err
           /\ \A h \in Returned :
                getters[h].from = getters[g].from =>
                  (getters[h].state = getters[g].state /\ getters[h].err = getters[g].err)

\* C12 witness: every getter was served by the one get_workgroup call made
C12_Witness ==
    /\ Returned = Getters
    /\ Len(calls) = 1
    /\ \A g \in Getters : getters[g].from = 1 /\ getters[g].state = "ENABLED"

\* a getter enters getWG: it leaves "idle"
Enters(g) == getters[g].pc = "idle" /\ getters'[g].pc # "idle"

\* a fetch ends: its call is appended to calls
FetchEnds == Len(calls') = Len(calls) + 1

\* C13: cache TTL. A resolution made while a fetched workgroup is younger than the
\* TTL returns that workgroup with no remote call; a resolution made once the TTL
\* has elapsed waits for a fetch, of which exactly one is then running; and a
\* successful fetch is cached for the TTL counted from its completion.
C13_CacheTTL ==
    /\ [][\A g \in Getters :
            (Enters(g) /\ wgCache.valid /\ now < wgCache.expiresAt)
              => /\ getters'[g] = Got(wgCache.state, Nil, 0)
                 /\ calls' = calls
                 /\ inflight' = inflight
                 /\ wgCache' = wgCache]_vars
    /\ [][\A g \in Getters :
            (Enters(g) /\ wgCache.valid /\ now >= wgCache.expiresAt)
              => /\ getters'[g].pc = "waiting"
                 /\ inflight' = 1
                 /\ inflight = 0 <=> \A h \in Getters : getters[h].pc # "waiting"]_vars
    /\ [][(FetchEnds /\ calls'[Len(calls')].err = Nil)
            => /\ wgCache'.valid
               /\ wgCache'.expiresAt = now + WGCacheTTL
               /\ \A g \in waiters : getters'[g].state = wgCache'.state]_vars

\* C13 witness: a second successful fetch was made, which only an expired entry
\* allows, and a getter has been served by it
C13_Witness ==
    /\ Len(calls) = 2
    /\ calls[1].err = Nil /\ calls[2].err = Nil
    /\ \E g \in Returned : getters[g].from = 2
    /\ \E g \in Returned : getters[g].from = 0

\* C14: a failed lookup is not cached. The getters of a failed fetch receive its
\* error, the entry holds no value afterwards, and the next resolution of the name
\* waits for a new get_workgroup call instead of returning the error or a value.
C14_FailureNotCached ==
    /\ [][(FetchEnds /\ calls'[Len(calls')].err # Nil)
            => /\ ~wgCache'.valid
               /\ \A g \in waiters : getters'[g] = Got("", calls'[Len(calls')].err, Len(calls'))]_vars
    /\ [][\A g \in Getters :
            (Enters(g) /\ calls # <<>> /\ calls[Len(calls)].err # Nil)
              => /\ getters'[g].pc = "waiting"
                 /\ getters'[g].from = Len(calls) + 1
                 /\ inflight' = 1]_vars
    /\ []((calls # <<>> /\ calls[Len(calls)].err # Nil) => ~wgCache.valid)

\* C14 witness: after a failed lookup a getter was served by a new call
C14_Witness ==
    /\ Len(calls) = 2
    /\ calls[1].err = ErrRemote
    /\ calls[2].err = Nil
    /\ \E g \in Returned : getters[g].from = 2 /\ getters[g].state = "ENABLED"

\* the invocation passed the local checks of QueryContext and asked for its
\* configured non-default workgroup
AskedWG ==
    /\ pc \notin {"idle", "getwg"}
    /\ NeedsWG
    /\ Entry(api, query0, namedArgs).next = "workgroup"

\* the resolution of the workgroup failed: the get_workgroup call returned an error
ResolutionFailed == AskedWG /\ \E c \in CallsOf("GetWorkGroup") : c.err # Nil

\* C15: when the resolution of a configured non-default workgroup fails, with remote
\* creation disabled the invocation fails with the workgroup-unavailable error and
\* makes no create_workgroup and no start_execution call; with remote creation
\* enabled it makes exactly one create_workgroup call, returns the creation error
\* with no start_execution call when that call fails, and goes on to the submission
\* only when it succeeds.
C15_ResolutionFailure ==
    /\ NumCalls("CreateWorkGroup") > 0 => (ResolutionFailed /\ config.wgRemoteCreation)
    /\ (ResolutionFailed /\ ~config.wgRemoteCreation) =>
         /\ Done
         /\ ret.err = ErrWGUnavailable
         /\ NoOutput
         /\ Len(calls) = 1
    /\ (ResolutionFailed /\ config.wgRemoteCreation /\ pc # "createwg") =>
         /\ NumCalls("CreateWorkGroup") = 1
         /\ \A c \in CallsOf("CreateWorkGroup") :
              /\ c.err # Nil =>
                   (Done /\ ret.err = c.err /\ NoOutput /\ Len(calls) = 2)
              /\ (c.err = Nil /\ Dispatch(query, pseudoCommand, args) = "start") =>
                   (pc = "start" \/ NumCalls("StartQueryExecution") = 1)
    /\ (ResolutionFailed /\ pc = "createwg") => Len(calls) = 1

\* C15 witness: the creation failed and its error came back
C15_Witness ==
    /\ Done /\ ResolutionFailed /\ config.wgRemoteCreation
    /\ \E c \in CallsOf("CreateWorkGroup") : c.err = ErrRemote
    /\ ret.err = ErrRemote

\* the resolution of the workgroup succeeded
Resolved == AskedWG /\ wgCache.valid /\ \A c \in CallsOf("GetWorkGroup") : c.err = Nil

\* C16: when the resolution succeeds with a workgroup that is not Enabled, the
\* invocation fails with the workgroup-disabled error and makes no create, start,
\* status, stop or result call; the cache holds the disabled workgroup as a value
\* (the get_workgroup call, if one was made, returned no error) and the rejection
\* is QueryContext's.
C16_DisabledWorkgroup ==
    /\ (Resolved /\ wgCache.state # "ENABLED") =>
         /\ Done
         /\ ret.err = ErrWGDisabled
         /\ NoOutput
         /\ \A i \in DOMAIN calls : calls[i].op = "GetWorkGroup" /\ calls[i].err = Nil
         /\ Len(calls) <= 1
    /\ (Done /\ ret.err = ErrWGDisabled) => (Resolved /\ wgCache.state = "DISABLED")
    /\ (Resolved /\ wgCache.state = "ENABLED") => ret.err # ErrWGDisabled

\* C16 witness: the disabled workgroup came from the cache, with no remote call
C16_Witness ==
    /\ Done /\ ret.err = ErrWGDisabled
    /\ calls = <<>>
    /\ wgCache.valid /\ wgCache.state = "DISABLED"

\* the number of placeholders of the caller's query differs from the number of
\* arguments supplied
Mismatch == api # "none" /\ Count(query0, "?") # Len(namedArgs)

\* C17 as claimed, in its instance N = 0: a call with placeholders in its query and
\* no argument makes no remote call (it is to fail with the invalid-query error
\* before any).
C17_AsClaimed == (Mismatch /\ namedArgs = <<>>) => calls = <<>>

\* the text of s up to its first blank
RECURSIVE Word(_)
Word(s) == IF s = <<>> \/ Head(s) = " " THEN <<>> ELSE <<Head(s)>> \o Word(Tail(s))

\* the command name of a query that begins with pc:
CommandName(text) == Word(Trim(Drop(text, 1)))

KnownCommands == {PCGetQID, PCGetQIDStatus, PCStopQID, PCGetDriverVersion}

\* C18 as claimed: a query that begins with pc: and whose command name is not one
\* of the four pseudo commands fails with the unknown-pseudo-command error, with no
\* remote call.
C18_AsClaimed ==
    (Done /\ api = "QueryContext" /\ HasPrefix(query0, <<"pc:">>)
       /\ CommandName(query0) \notin KnownCommands)
        => (ret.err = ErrPseudoCommand /\ NoOutput /\ calls = <<>>)

\* C19: QueryContext given pc:get_driver_version returns at once one row with one
\* column holding the driver version and makes no remote call, whatever the
\* read-only flag, the configured workgroup, the arguments and the answers of the
\* remote service.
C19_DriverVersion ==
    (api = "QueryContext" /\ query0 = <<"pc:", "get_driver_version">>)
        => /\ Done
           /\ ret.rows.kind = "single"
           /\ ret.rows.columns = <<"_col0">>
           /\ ret.rows.data = << <<DriverVersion>> >>
           /\ ret.err = Nil
           /\ calls = <<>>

\* C19 witness: the version came back on a read-only connection with a
\* non-default workgroup configured and an argument the driver does not support
C19_Witness ==
    /\ Done /\ api = "QueryContext" /\ query0 = <<"pc:", "get_driver_version">>
    /\ config.readOnly /\ config.wgName = "wg1"
    /\ namedArgs = <<ArgUnknown>>
    /\ ret.rows = getHeaderlessSingleRowResultPage(DriverVersion)

\* the workgroup check of the invocation passed
WGPassed ==
    \/ ~NeedsWG
    \/ Resolved /\ wgCache.state = "ENABLED"
    \/ \E c \in CallsOf("CreateWorkGroup") : c.err = Nil

\* C20: pc:stop_query_id <execution id>, when the local checks and the workgroup
\* check pass, makes exactly one stop_execution call, for that identifier, and no
\* start_execution or status call; it returns the one-row result "OK" when the stop
\* succeeds, and the error of the stop call with no rows when it fails.
C20_StopQueryID ==
    (Done /\ api = "QueryContext"
       /\ query0 = <<"pc:", "stop_query_id", " ", QIDTok>>
       /\ Entry(api, query0, namedArgs).next = "workgroup"
       /\ WGPassed)
        => /\ NumCalls("StopQueryExecution") = 1
           /\ NumCalls("StartQueryExecution") = 0
           /\ NumCalls("GetQueryExecution") = 0
           /\ NumCalls("GetQueryResults") = 0
           /\ \A c \in CallsOf("StopQueryExecution") :
                /\ c.id = QIDTok
                /\ c.err = Nil =>
                     /\ ret.rows.kind = "single"
                     /\ ret.rows.data = << <<"OK">> >>
                     /\ ret.err = Nil
                /\ c.err # Nil => (ret.err = c.err /\ NoOutput)

\* C20 witness: the stop call failed, after the workgroup was resolved remotely
C20_Witness ==
    /\ Done /\ api = "QueryContext"
    /\ query0 = <<"pc:", "stop_query_id", " ", QIDTok>>
    /\ NumCalls("GetWorkGroup") = 1
    /\ \E c \in CallsOf("StopQueryExecution") : c.err = ErrRemote
    /\ ret.err = ErrRemote

\* the caller asks QueryContext for the state of an execution
AsksStatus ==
    /\ api = "QueryContext"
    /\ query0 = <<"pc:", "get_query_id", "_status", " ", QIDTok>>

\* C21 as claimed, in a session that is not read-only and for a call without
\* arguments: pc:get_query_id_status <execution id> issues exactly one
\* get_execution_status call.
C21_AsClaimed ==
    (Done /\ AsksStatus /\ ~config.readOnly /\ namedArgs = <<>>)
        => NumCalls("GetQueryExecution") = 1

\* C21 (amended): pc:get_query_id_status <execution id>, when the local checks and
\* the workgroup check pass, makes exactly one get_execution_status call, for that
\* identifier, and no start_execution, stop_execution or result call; it returns
\* the state the call answered as a one-row result, a Queued or Running state
\* included, or the error of the call with no rows when it fails.
C21_StatusOfQueryID ==
    (Done /\ AsksStatus /\ Entry(api, query0, namedArgs).next = "workgroup" /\ WGPassed)
        => /\ NumCalls("GetQueryExecution") = 1
           /\ NumCalls("StartQueryExecution") = 0
           /\ NumCalls("StopQueryExecution") = 0
           /\ NumCalls("GetQueryResults") = 0
           /\ \A c \in CallsOf("GetQueryExecution") :
                /\ c.id = QIDTok
                /\ c.err = Nil =>
                     /\ ret.err = Nil
                     /\ ret.rows.kind = "single"
                     /\ \E st \in NonTerminal \cup Terminal : ret.rows.data = << <<st>> >>
                /\ c.err # Nil => (ret.err = c.err /\ NoOutput)

\* C21 witness: the state returned is Running, after a remote resolution of the
\* workgroup
C21_Witness ==
    /\ Done /\ AsksStatus
    /\ NumCalls("GetWorkGroup") = 1
    /\ ret.rows = getHeaderlessSingleRowResultPage("RUNNING")

\* the caller passes an execution identifier as the query, with no pseudo command
AsksCachedResults == api = "QueryContext" /\ query0 = <<QIDTok>>

\* C22: a query that is an execution identifier bypasses the submission: the
\* invocation makes no start_execution, status or stop call; once its local checks
\* and the workgroup check pass, its one remaining call is the fetch of the result
\* pages of that identifier, and it returns the cursor on them or the error of the
\* fetch.
C22_CachedQuery ==
    AsksCachedResults =>
        /\ NumCalls("StartQueryExecution") = 0
        /\ NumCalls("GetQueryExecution") = 0
        /\ NumCalls("StopQueryExecution") = 0
        /\ \A c \in CallsOf("GetQueryResults") : c.id = QIDTok
        /\ (Done /\ Entry(api, query0, namedArgs).next = "workgroup" /\ WGPassed) =>
             /\ NumCalls("GetQueryResults") = 1
             /\ calls[Len(calls)].op = "GetQueryResults"
             /\ \A c \in CallsOf("GetQueryResults") :
                  /\ c.err = Nil =>
                       /\ ret.err = Nil
                       /\ ret.rows.kind = "cursor"
                       /\ ret.rows.queryID = QIDTok
                  /\ c.err # Nil => (ret.err = c.err /\ NoOutput)

\* C22 witness: the cursor on the results of the identifier, after a single call
C22_Witness ==
    /\ Done /\ AsksCachedResults
    /\ Len(calls) = 1
    /\ calls[1].op = "GetQueryResults"
    /\ ret.rows.kind = "cursor" /\ ret.rows.queryID = QIDTok

\* a transaction start has returned
TxAsked == Done /\ api \in {"Begin", "BeginTx"}

\* C23: Begin and BeginTx fail with the transaction-unsupported error and return no
\* transaction, whatever the options and whatever the connection has done before;
\* they make no remote call and leave every part of the connection's state as it
\* was.
C23_TransactionUnsupported ==
    /\ [](TxAsked => /\ ret.err = ErrAthenaTransactionUnsupported
                     /\ NoOutput
                     /\ calls = <<>>)
    /\ [][(pc = "idle" /\ api' \in {"Begin", "BeginTx"}) => UNCHANGED untouched]_vars

\* C23 witness: BeginTx refused on a connection that holds a resolved workgroup
C23_Witness ==
    /\ TxAsked /\ api = "BeginTx"
    /\ wgCache.valid
    /\ ret.err = ErrAthenaTransactionUnsupported

\* the poll loop of a submitted statement has made a terminal transition: a poll
\* has answered a terminal state, or the select has taken the cancellation case
TerminalTransition ==
    /\ Submitted
    /\ pc \in {"done", "results"}
    /\ statusResp.state \in Terminal \/ selected = "ctx"

\* C24: with cost accounting enabled, the bytes-scanned statistic of the execution
\* is emitted on every terminal transition of the poll loop: Succeeded, Failed,
\* backend Cancelled and caller cancellation.
C24_AsClaimed ==
    (config.moneyWise /\ TerminalTransition)
        => \E i \in DOMAIN costs : costs[i].id = queryID

\* the QueryContext call of the invocation succeeded: the first result page of the
\* submitted statement was fetched
QuerySucceeded ==
    /\ calls # <<>>
    /\ calls[Len(calls)].op = "GetQueryResults"
    /\ calls[Len(calls)].err = Nil

\* C25: Ping runs the query SELECT 1 through QueryContext; it returns nil exactly
\* when that call succeeds, the rows being closed without a further page read,
\* and the bad-connection error for every failure of that call.
C25_Ping ==
    /\ api = "Ping" =>
         /\ query0 = PingQuery /\ namedArgs = <<>>
         /\ \A c \in CallsOf("StartQueryExecution") : c.query = PingQuery /\ c.params = <<>>
         /\ NumCalls("GetQueryResults") <= 1
    /\ (Done /\ api = "Ping") =>
         /\ ret.err \in {Nil, ErrBadConn}
         /\ ret.err = Nil <=> QuerySucceeded
         /\ NoOutput
    /\ (Done /\ api = "QueryContext") =>
         /\ ret.err = Nil <=> QuerySucceeded
         /\ ret.err = Nil <=> ret.rows # NoRows

\* C25 witness: a health check that failed in the poll loop, on a timeout
C25_Witness ==
    /\ Done /\ api = "Ping"
    /\ ret.err = ErrBadConn
    /\ selected = "timer"
    /\ NumCalls("GetQueryExecution") > 0

\* the GetQueryResults calls that were answered with a page
Pages == {c \in CallsOf("GetQueryResults") : c.err = Nil}

\* C26: ExecContext returns an execution count and never a cursor. When its query
\* succeeds the count is the update count of the fetched result, or 0 when the
\* result carries none (or when nothing was fetched), and the last inserted id is
\* -1. When its own checks or its query fail it returns that error and no result.
C26_ExecResult ==
    (Done /\ api = "ExecContext") =>
        /\ ret.rows = NoRows
        /\ ret.err = Nil =>
             /\ ret.result.kind = "AthenaResult"
             /\ ret.result.lastInsertedID = -1
             /\ \A c \in Pages :
                  ret.result.rowAffected = IF c.updateCount.present
                                           THEN c.updateCount.n ELSE 0
             /\ Pages = {} => ret.result.rowAffected = 0
        /\ ret.err # Nil => ret.result = NoResult
        /\ ExecOwnError # Nil => (ret.err = ExecOwnError /\ calls = <<>>)
        /\ (calls # <<>> /\ calls[Len(calls)].err # Nil
              /\ calls[Len(calls)].op \in {"GetQueryExecution", "GetQueryResults",
                                           "StopQueryExecution", "CreateWorkGroup"})
             => ret.err = calls[Len(calls)].err
        /\ (calls # <<>> /\ calls[Len(calls)].op = "GetQueryResults")
             => (ret.err = Nil <=> calls[Len(calls)].err = Nil)

\* C26 witness: a statement run for effect whose result carries an update count
C26_Witness ==
    /\ Done /\ api = "ExecContext"
    /\ ret.err = Nil
    /\ ret.result.rowAffected = 1024
    /\ \E c \in Pages : c.updateCount.present

\* the text QueryContext works on: the caller's text less its pseudo command
Parameterized == ParsePseudoCommand(query0).query

\* the execution parameter the i-th argument of the caller is to give
ParamOf(i) ==
    CASE namedArgs[i].type = "nil" -> <<"NULL">>
      [] namedArgs[i].type = "int64" -> <<ToString(namedArgs[i].i)>>
      [] namedArgs[i].type = "bool" -> IF namedArgs[i].b THEN <<"1">> ELSE <<"0">>
      [] namedArgs[i].type = "string" -> namedArgs[i].s
      [] OTHER -> <<>>

\* C27: when QueryContext is given N >= 1 arguments, every start_execution request
\* it makes carries the parameterized text with its N placeholders intact, not the
\* interpolated text, and N execution parameters, the i-th made of the i-th
\* argument.
C27_ParameterizedSubmission ==
    (api = "QueryContext" /\ Len(namedArgs) >= 1) =>
        \A c \in CallsOf("StartQueryExecution") :
            /\ c.query = Parameterized
            /\ Count(c.query, "?") = Len(namedArgs)
            /\ Len(c.params) = Len(namedArgs)
            /\ \A i \in DOMAIN namedArgs : c.params[i] = ParamOf(i)

\* C27 witness: a submission with two placeholders and two arguments
C27_Witness ==
    /\ api = "QueryContext" /\ namedArgs = <<ArgStr, ArgNil>>
    /\ \E c \in CallsOf("StartQueryExecution") :
         /\ c.query = <<"SELECT", "?", "?">>
         /\ c.params = << <<"a">>, <<"NULL">> >>
         /\ query = <<"SELECT", "'", "a", "'", "NULL">>

\* the argument types the driver supports (of those drawn)
Supported(a) == a.type \in {"nil", "int64", "bool", "string"}

\* the SQL literal of an argument of a supported type
Literal(a) ==
    CASE a.type = "nil" -> <<"NULL">>
      [] a.type = "int64" -> <<ToString(a.i)>>
      [] a.type = "bool" -> IF a.b THEN <<"1">> ELSE <<"0">>
      [] OTHER -> <<"'">> \o escapeStringBackslash(a.s) \o <<"'">>

\* the text q with its placeholders replaced, in order, by the literals of as
RECURSIVE Substituted(_, _)
Substituted(q, as) ==
    IF q = <<>> THEN <<>>
    ELSE IF Head(q) = "?" /\ as # <<>>
    THEN Literal(Head(as)) \o Substituted(Tail(q), Tail(as))
    ELSE <<Head(q)>> \o Substituted(Tail(q), as)

\* interpolateParams was given as many supported arguments as placeholders
Matching ==
    /\ pc = "interpolated"
    /\ Count(query0, "?") = Len(namedArgs)
    /\ \A i \in DOMAIN namedArgs : Supported(namedArgs[i])

\* the question marks inside the literals of the arguments
RECURSIVE InLiterals(_)
InLiterals(as) ==
    IF as = <<>> THEN 0 ELSE Count(Literal(Head(as)), "?") + InLiterals(Tail(as))

RECURSIVE ParamsLen(_)
ParamsLen(ps) == IF ps = <<>> THEN 0 ELSE ByteLen(Head(ps)) + ParamsLen(Tail(ps))

\* C29: neither interpolateParams nor buildExecutionParams returns an output longer
\* than ten times the maximum query length; they fail with the buffer-overflow
\* error instead.
C29_AsClaimed ==
    /\ (pc = "interpolated" /\ ret.err = Nil)
         => ByteLen(query) <= 10 * MAXQueryStringLength
    /\ (pc = "built" /\ ret.err = Nil)
         => ParamsLen(executionParams) <= 10 * MAXQueryStringLength

\* the status calls of the poll loop that failed
FailedPolls ==
    {i \in DOMAIN calls : /\ Submitted
                          /\ calls[i].op = "GetQueryExecution"
                          /\ calls[i].err # Nil}

CancelledInLoop == ctxErr # Nil /\ pc \in {"poll", "select", "stop", "finalstatus"}

\* C31: when the caller's context is done while QueryContext is in its poll loop
\* and every remote call returns, QueryContext eventually returns.
C31_CancelledReturns == CancelledInLoop ~> Done

\* C31 witness: the invocation returned through the cancellation case of the
\* select, the context having been cancelled while the execution was running
C31_Witness ==
    /\ Done
    /\ ctxErr # Nil
    /\ firedIn \in NonTerminal
    /\ selected = "ctx"
    /\ NumCalls("StopQueryExecution") = 1

\* QueryContext was given a plain statement: no pseudo command, no identifier
PlainStatement ==
    /\ api = "QueryContext"
    /\ ~HasPrefix(query0, <<"pc:">>)
    /\ ~IsQID(query)

\* the positions of the calls of operation op
At(op) == {i \in DOMAIN calls : calls[i].op = op}

\* C32: within one QueryContext invocation of a plain statement, the workgroup
\* calls precede the start_execution call, the start_execution call precedes every
\* status call, a result page is fetched only right after a status call that
\* answered Succeeded, and a poll that follows another is made only after the
\* timer of one poll interval, set when the earlier poll answered, has fired.
C32_CallOrder ==
    /\ [](PlainStatement =>
            /\ \A i \in At("GetWorkGroup") \cup At("CreateWorkGroup") :
                 \A j \in DOMAIN calls :
                     calls[j].op \notin {"GetWorkGroup", "CreateWorkGroup"} => i < j
            /\ \A i \in At("StartQueryExecution") :
                 \A j \in DOMAIN calls :
                     calls[j].op \in {"GetQueryExecution", "StopQueryExecution",
                                      "GetQueryResults"} => i < j
            /\ \A j \in At("GetQueryExecution") \cup At("GetQueryResults") :
                 /\ At("StartQueryExecution") # {}
                 /\ \A i \in At("StartQueryExecution") : calls[i].err = Nil
            /\ \A j \in At("GetQueryResults") :
                 /\ j > 1
                 /\ calls[j - 1].op = "GetQueryExecution"
                 /\ calls[j - 1].err = Nil
                 /\ statusResp.state = "SUCCEEDED")
    /\ [][(PlainStatement /\ pc = "poll" /\ pc' # "poll" /\ statusResp.state # "NONE")
            => /\ selected = "timer"
               /\ now >= timer
               /\ calls[Len(calls)].op = "GetQueryExecution"]_vars

\* C32 witness: workgroup fetched and created, submission, two polls and the fetch
C32_Witness ==
    /\ PlainStatement /\ Done
    /\ Len(calls) = 6
    /\ calls[1].op = "GetWorkGroup" /\ calls[2].op = "CreateWorkGroup"
    /\ calls[3].op = "StartQueryExecution"
    /\ calls[4].op = "GetQueryExecution" /\ calls[5].op = "GetQueryExecution"
    /\ calls[6].op = "GetQueryResults"
    /\ now >= PollInterval

\* a poll of the submitted statement has observed Succeeded
SawSucceeded == Submitted /\ statusResp.state = "SUCCEEDED"

\* C34: when a poll observes Succeeded the invocation goes to the result fetch,
\* whether or not the caller's context was done or the timeout had elapsed before
\* that poll: it makes no stop_execution call and returns the cursor or the error
\* of the fetch, never the timeout error or the error of the context.
C34_SuccessFirst ==
    SawSucceeded =>
        /\ pc \in {"results", "done"}
        /\ NumCalls("StopQueryExecution") = 0
        /\ Done =>
             /\ calls[Len(calls)].op = "GetQueryResults"
             /\ ret.err = calls[Len(calls)].err
             /\ ret.err # ErrQueryTimeout
             /\ ret.err \notin ContextErrors
             /\ (ret.err = Nil /\ api = "QueryContext") => ret.rows.kind = "cursor"

\* C34 witness: rows returned although the context was done before the poll that
\* observed Succeeded and the timeout of the statement had elapsed by then
C34_Witness ==
    /\ SawSucceeded /\ Done
    /\ api = "QueryContext"
    /\ ctxErr # Nil /\ firedIn # "SUCCEEDED"
    /\ isQueryTimeOut(startOfStartQueryExecution, statusResp.stype)
    /\ ret.err = Nil /\ ret.rows.kind = "cursor"

\* pc:stop_query_id or pc:get_query_id_status with a remainder that is no
\* execution identifier, in a call that passed its local checks
CommandOnText ==
    /\ api = "QueryContext"
    /\ Entry(api, query0, namedArgs).next = "workgroup"
    /\ pseudoCommand \in {PCStopQID, PCGetQIDStatus}
    /\ ~IsQID(query)

\* C35: the remainder of pc:stop_query_id or pc:get_query_id_status that is no
\* execution identifier is handled as a statement: it is submitted once the
\* workgroup check has passed and, if the submission succeeds, polled; the only
\* stop_execution calls are those of the cancellation case for the new execution,
\* and no "OK" or state row is returned.
C35_CommandOnText ==
    CommandOnText =>
        /\ \A c \in CallsOf("StartQueryExecution") : c.query = query
        /\ \A c \in CallsOf("StopQueryExecution") : c.id = NewQID /\ selected = "ctx"
        /\ \A c \in CallsOf("GetQueryExecution") : c.id = NewQID
        /\ ret.rows.kind # "single"
        /\ (Done /\ WGPassed) =>
             /\ NumCalls("StartQueryExecution") = 1
             /\ (\A c \in CallsOf("StartQueryExecution") : c.err = Nil)
                  => NumCalls("GetQueryExecution") >= 1

\* C35 witness: pc:get_query_id_status SELECT ran as the statement SELECT to its rows
C35_Witness ==
    /\ CommandOnText /\ Done
    /\ pseudoCommand = PCGetQIDStatus
    /\ query = <<"SELECT">>
    /\ statusResp.state = "SUCCEEDED"
    /\ ret.rows.kind = "cursor" /\ ret.rows.queryID = NewQID

\* C37: ExecContext given N >= 1 arguments submits the text it has interpolated
\* itself and no execution parameters; and every start_execution request of the
\* driver that has execution parameters has as many of them as its text has
\* question marks.
C37_ExecutionParameters ==
    /\ (api = "ExecContext" /\ Len(namedArgs) >= 1) =>
         \A c \in CallsOf("StartQueryExecution") :
             /\ ExecInterpolated.err = Nil
             /\ c.query = ParsePseudoCommand(ExecInterpolated.s).query
             /\ c.params = <<>>
    /\ \A c \in CallsOf("StartQueryExecution") :
         c.params # <<>> => Len(c.params) = Count(c.query, "?")

\* C37 witness: ExecContext with one argument has submitted the interpolated text
C37_Witness ==
    /\ api = "ExecContext" /\ query0 = <<"CREATE", "?">> /\ namedArgs = <<ArgInt>>
    /\ \E c \in CallsOf("StartQueryExecution") :
         c.query = <<"CREATE", "7">> /\ c.params = <<>>

\* getter g enters getWG while the entry of the name holds a fresh workgroup that
\* was fetched through another client
HitsForeignEntry(g) ==
    /\ Enters(g)
    /\ Fresh
    /\ owner # 0 /\ owner # ClientOf(g)

\* C36: the entry of a workgroup name serves every client. Within the TTL after a
\* fetch through one client has succeeded, getWG called for the name through
\* another client returns the memoized workgroup with the state the first
\* client's service gave, and no remote call is made.
C36_SharedAcrossClients ==
    /\ [](wgCache.valid <=> owner # 0)
    /\ [][\A g \in Getters :
            HitsForeignEntry(g) =>
                /\ getters'[g] = Got(wgCache.state, Nil, 0)
                /\ calls' = calls
                /\ UNCHANGED <<wgCache, owner>>]_vars

\* C36 witness: a getter holds the DISABLED workgroup another client had fetched
C36_Witness ==
    \E g \in Getters :
        /\ getters[g] = Got("DISABLED", Nil, 0)
        /\ Fresh
        /\ owner # 0 /\ owner # ClientOf(g)
        /\ Len(calls) = 1

\* the data rows of pages k..NumPages in page order, page j holding sizes[j] rows
RECURSIVE RowsFrom(_, _)
RowsFrom(k, sizes) ==
    IF k > NumPages THEN <<>>
    ELSE [i \in 1..sizes[k] |-> Row(k, i)] \o RowsFrom(k + 1, sizes)

IsPrefix(a, b) == Len(a) <= Len(b) /\ SubSeq(b, 1, Len(a)) = a

\* C33: iterating the cursor over the page chain gives the data rows of the pages
\* in page order, each once and no header row among them; every page is requested
\* at most once, in the order of the chain; and the end of the data is signalled
\* when all rows of all pages have been given.
C33_CursorExhaustion ==
    cursor.state # "none" =>
    /\ IsPrefix(cursor.yielded, RowsFrom(1, cursor.sizes))
    /\ IsPrefix(cursor.fetched, PageTokens)
    /\ cursor.state = "eof" =>
         /\ cursor.yielded = RowsFrom(1, cursor.sizes)
         /\ cursor.fetched = PageTokens
         /\ cursor.buf = <<>>

\* C33 witness: the end of the data after the rows of five pages of two rows
C33_Witness ==
    /\ cursor.state = "eof"
    /\ Len(cursor.yielded) = NumPages * MaxPageRows
    /\ cursor.yielded[1] = Row(1, 1)
    /\ cursor.yielded[Len(cursor.yielded)] = Row(NumPages, MaxPageRows)
    /\ Len(cursor.fetched) = NumPages

====
